---- MODULE Spec2Model ----
(***************************************************************************)
(* Task-Scheduler: TaskScheduler, DependencyManager, ThreadSafePriority-   *)
(* Queue and ThreadPool, as one state machine.  Every step is one atomic   *)
(* access of the code (an atomic load/store, or one critical section of    *)
(* one mutex); caller threads, pool workers, a cancelling thread and a     *)
(* thread calling shutdown() interleave freely.                            *)
(***************************************************************************)
EXTENDS Integers, Sequences, FiniteSets, TLC

\* ------------------------------------------------------------------ bounds
MaxTasks == 3
MaxDeps == 2
NumWorkers == 2
NumCallers == 2
MaxCancels == 2
MaxClientTasks == 2
MaxEnqueues == 3
MaxShutdowns == 2
NumProducers == 2
NumConsumers == 2
ItemsPerProducer == 2
NumIndexers == 2
AddsPerIndexer == 2
MaxDmCalls == 5
NumPoppers == 2
MaxPushes == 3

\* --------------------------------------------------------------- constants
LOW == 0
NORMAL == 1
HIGH == 2
Priority == {LOW, NORMAL, HIGH}

TaskState == {"PENDING", "READY", "RUNNING", "COMPLETED", "CANCELLED"}

NoTask == 0
TaskId == 1 .. MaxTasks
UnknownId == MaxTasks + 1
ArgIds == 1 .. UnknownId

Callers == 1 .. NumCallers
Submitter == {1}
Workers == (NumCallers + 1) .. (NumCallers + NumWorkers)
Canceller == NumCallers + NumWorkers + 1
Stopper == NumCallers + NumWorkers + 2
Free == 0

\* Parallel-Index: the threads of the producer/consumer test and the values
\* they push (producer p pushes <<p, 1>>, <<p, 2>>, ... in this order)
Producers == 1 .. NumProducers
Consumers == 1 .. NumConsumers
Items == Producers \X (1 .. ItemsPerProducer)
NoItem == <<0, 0>>

\* callables handed to ThreadPool::enqueue, named by the number of the call
Callables == 1 .. MaxEnqueues
NoCallable == 0

\* threads popping the ready queue directly
Poppers == 1 .. NumPoppers

\* Parallel-Index: the threads adding to the InvertedIndex.  In its j-th call
\* a thread adds the word "word_" + to_string(j) at position j, under its own
\* file id or under the file id all threads share.
Indexers == 1 .. NumIndexers
SharedFile == 10
FileIds == Indexers \cup {SharedFile}
Word(j) == <<"word_", j>>
Words == {Word(j) : j \in 1 .. AddsPerIndexer}

DepLists == UNION {[1 .. n -> ArgIds] : n \in 0 .. MaxDeps}

VARIABLES
  next_task_id_,        \* TaskScheduler::next_task_id_
  shutdown_requested_,  \* TaskScheduler::shutdown_requested_
  all_tasks_,           \* keys of TaskScheduler::all_tasks_
  tasks_mutex_,         \* holder of TaskScheduler::tasks_mutex_, or Free
  state_,               \* Task::state_ of each task
  priority_,            \* Task::priority_
  dependencies_,        \* Task::dependencies_
  cancel_requested_,    \* Task::cancel_requested_
  dependents_,          \* DependencyManager::dependents_
  dependency_count_,    \* DependencyManager::dependency_count_
  ready_queue_,         \* ThreadSafePriorityQueue::queue_ (entries per task)
  task_queue_,          \* ThreadPool::task_queue_ (number of queued probes)
  stop_,                \* ThreadPool::stop_
  caller,               \* position and locals of each submit_task call
  worker,               \* position and locals of each pool worker
  canceller,            \* position and locals of the cancel_task call
  stopper,              \* position of the shutdown() call
  waiter,               \* position and locals of the wait_for_all call
  popped,               \* result of the last direct pop of the ready queue
  reader,               \* position and locals of the get_task_status call
  workers_,             \* ThreadPool::workers_ (the threads not yet joined)
  enqueuer,             \* history of the direct ThreadPool::enqueue calls
  served,               \* history: what each worker did with the callables it ran
  pool_shutdown,        \* position and count of direct ThreadPool::shutdown calls
  queue_,               \* ConcurrentQueue::queue_
  closed_,              \* ConcurrentQueue::closed_
  producer,             \* position of each producer thread
  consumer,             \* position and locals of each consumer thread (woken:
                        \* whether close() ended the wait of the current call)
  closer,               \* position of the thread calling close()
  delivered,            \* history: successful wait_and_pop returns per item
  index_,               \* InvertedIndex::index_: word -> vector of WordOccurrence
  mutex_,               \* holder of InvertedIndex::mutex_ (exclusive), or Free
  indexer,              \* position and locals of each thread adding to the index
  adds,                 \* history: the add_word_occurrence calls of each thread
  dm_call,              \* the last call a client made on the DependencyManager
  popper,               \* position and result of each thread popping the ready queue
  pusher,               \* pushes made, and pushes whose notify_one is still to come
  taken,                \* history: number of entries handed out by the ready queue
  task_queue_ids,       \* ThreadPool::task_queue_ as a sequence of callables, front first
  pool_calls,           \* history: callables accepted and dequeued, in order
  in_hand,              \* the callable each worker_loop holds in its local "task"
  ran,                  \* history: how often each callable has been executed
  requested,            \* history: dependency list handed to submit_task
  accepted,             \* history: ids returned by submit_task
  ready_transitions,    \* history: number of set_state(READY) per task
  exec_count            \* history: number of starts of each task's callable

poolVars == <<workers_, enqueuer, served, pool_shutdown>>
cqVars == <<queue_, closed_, producer, consumer, closer, delivered>>
idxVars == <<index_, mutex_, indexer, adds>>
queueClientVars == <<popper, pusher, taken>>
callableVars == <<task_queue_ids, pool_calls, in_hand, ran>>
directVars == <<dm_call, queueClientVars, callableVars>>
extVars == <<reader, poolVars, cqVars, idxVars, directVars>>

vars == <<next_task_id_, shutdown_requested_, all_tasks_, tasks_mutex_,
          state_, priority_, dependencies_, cancel_requested_,
          dependents_, dependency_count_, ready_queue_, task_queue_, stop_,
          caller, worker, canceller, stopper, waiter, popped,
          requested, accepted, ready_transitions, exec_count, extVars>>

taskVars == <<state_, priority_, dependencies_, cancel_requested_>>
dmVars == <<dependents_, dependency_count_>>
histVars == <<requested, accepted, ready_transitions, exec_count>>
auxVars == <<waiter, popped, extVars>>

\* ------------------------------------------------------- map helpers
Range(s) == {s[i] : i \in DOMAIN s}

\* std::unordered_map: m[k] = v, inserting the key when absent
MapPut(m, k, v) == [x \in (DOMAIN m) \cup {k} |-> IF x = k THEN v ELSE m[x]]

\* std::unordered_map::erase(key)
MapErase(m, k) == [x \in (DOMAIN m) \ {k} |-> m[x]]

EmptyMap == [x \in {} |-> 0]

\* ------------------------------------------------- DependencyManager
\* add_dependency: dependents_[dependency].insert(dependent)
add_dependency_dependents(dm, dependent, dependency) ==
  MapPut(dm, dependency,
         (IF dependency \in DOMAIN dm THEN dm[dependency] ELSE {}) \cup {dependent})

\* add_dependency: dependency_count_[dependent]++
add_dependency_count(cnt, dependent) ==
  MapPut(cnt, dependent, (IF dependent \in DOMAIN cnt THEN cnt[dependent] ELSE 0) + 1)

\* mark_completed: the dependents of task_id that have a counter entry
mark_completed_touched(dm, cnt, task_id) ==
  IF task_id \in DOMAIN dm THEN dm[task_id] \cap DOMAIN cnt ELSE {}

\* mark_completed: the returned ready_tasks (counter reached exactly 0)
mark_completed_ready(dm, cnt, task_id) ==
  {d \in mark_completed_touched(dm, cnt, task_id) : cnt[d] - 1 = 0}

\* mark_completed that leaves a counter that reached 0 in the map
mark_completed_count_keepsZero(dm, cnt, task_id) ==
  [d \in DOMAIN cnt |->
     IF d \in mark_completed_touched(dm, cnt, task_id) THEN cnt[d] - 1 ELSE cnt[d]]

\* mark_completed: dependency_count_ after the call
mark_completed_count(dm, cnt, task_id) ==
  [d \in (DOMAIN cnt) \ mark_completed_ready(dm, cnt, task_id) |->
     IF d \in mark_completed_touched(dm, cnt, task_id) THEN cnt[d] - 1 ELSE cnt[d]]

\* mark_completed: dependents_ after the call
mark_completed_dependents(dm, task_id) == MapErase(dm, task_id)

\* remove_task that erases the task's entry and scrubs no other set
remove_task_dependents_noScrub(dm, task_id) == MapErase(dm, task_id)

\* remove_task: dependents_ after the call
remove_task_dependents(dm, task_id) ==
  [k \in (DOMAIN dm) \ {task_id} |-> dm[k] \ {task_id}]

\* remove_task: dependency_count_ after the call
remove_task_count(cnt, task_id) == MapErase(cnt, task_id)

\* get_dependency_count: the counter, or 0 when the task has no entry
get_dependency_count(cnt, task_id) ==
  IF task_id \in DOMAIN cnt THEN cnt[task_id] ELSE 0

\* get_dependents: the set stored for the task, or empty when it has no entry
get_dependents(dm, task_id) ==
  IF task_id \in DOMAIN dm THEN dm[task_id] ELSE {}

\* get_pending_task_count
get_pending_task_count(cnt) == Cardinality(DOMAIN cnt)

\* dfs_cycle_detection returns <<found, visited, rec_stack>>; the loop over
\* the dependents of `current` is dfs_loop.
RECURSIVE dfs_cycle_detection(_, _, _, _, _)
RECURSIVE dfs_loop(_, _, _, _, _)
dfs_loop(dm, start, todo, visited, rec_stack) ==
  IF todo = {} THEN <<FALSE, visited, rec_stack>>
  ELSE LET dependent == CHOOSE x \in todo : TRUE
           r == dfs_cycle_detection(dm, start, dependent, visited, rec_stack)
       IN IF r[1] THEN r
          ELSE dfs_loop(dm, start, todo \ {dependent}, r[2], r[3])

dfs_cycle_detection(dm, start, current, visited, rec_stack) ==
  IF current = start /\ rec_stack # {} THEN <<TRUE, visited, rec_stack>>
  ELSE IF current \in rec_stack THEN <<FALSE, visited, rec_stack>>
  ELSE IF current \in visited THEN <<FALSE, visited, rec_stack>>
  ELSE LET r == dfs_loop(dm, start,
                         IF current \in DOMAIN dm THEN dm[current] ELSE {},
                         visited \cup {current}, rec_stack \cup {current})
       IN IF r[1] THEN r ELSE <<FALSE, r[2], r[3] \ {current}>>

creates_cycle(dm, start, target) ==
  dfs_cycle_detection(dm, start, target, {}, {})[1]

has_circular_dependency(dm, task_id, new_dependencies) ==
  \E i \in DOMAIN new_dependencies : creates_cycle(dm, task_id, new_dependencies[i])

\* --------------------------------------------- ThreadSafePriorityQueue
\* TaskComparator with the priority comparison turned round
TaskComparator_lowFirst(prio, a, b) ==
  IF prio[a] # prio[b] THEN prio[a] > prio[b] ELSE a > b

\* TaskComparator with the tie-break on the id turned round
TaskComparator_lastFirst(prio, a, b) ==
  IF prio[a] # prio[b] THEN prio[a] < prio[b] ELSE a < b

\* TaskComparator: TRUE when a sorts below b
TaskComparator(prio, a, b) ==
  IF prio[a] # prio[b] THEN prio[a] < prio[b] ELSE a > b

QueueIds(q) == {t \in TaskId : q[t] > 0}

\* size()
QueueSize(q) ==
  LET RECURSIVE Sum(_)
      Sum(S) == IF S = {} THEN 0
                ELSE LET x == CHOOSE y \in S : TRUE IN q[x] + Sum(S \ {x})
  IN Sum(TaskId)

\* queue_.top(): the entry no other entry sorts above
QueueTop(q, prio) ==
  CHOOSE t \in QueueIds(q) : \A u \in QueueIds(q) : ~TaskComparator(prio, t, u)

\* push
QueuePush(q, t) == [q EXCEPT ![t] = @ + 1]

\* queue_.pop() of the top entry
QueuePop(q, prio) == [q EXCEPT ![QueueTop(q, prio)] = @ - 1]

EmptyQueue == [t \in TaskId |-> 0]

\* -------------------------------------------------------- ThreadPool
\* enqueue with the stop_ test inverted
enqueue_inverted(tq, stopped) == IF stopped THEN tq + 1 ELSE tq

\* enqueue without the stop_ test
enqueue_always(tq, stopped) == tq + 1

\* enqueue: dropped silently once stop_ is set
enqueue(tq, stopped) == IF stopped THEN tq ELSE tq + 1

\* ----------------------------------------------------- TaskScheduler
\* pending_tasks()
pending_tasks == get_pending_task_count(dependency_count_) + QueueSize(ready_queue_)

IdleCaller == [pc |-> "idle", id |-> NoTask, prio |-> NORMAL, deps |-> <<>>,
               i |-> 1, last |-> "none"]
IdleWorker == [pc |-> "wait", task |-> NoTask, ready |-> {}]
IdleCanceller == [pc |-> "idle", id |-> NoTask, cur |-> "NONE", done |-> 0,
                  last |-> "none"]
IdleWaiter == [pc |-> "idle", count |-> 0, size |-> 0, seen |-> {}]
IdleReader == [pc |-> "idle", id |-> NoTask, last |-> "none"]

\* the state after construction of what the scheduler's own threads never touch
IdlePopper == [pc |-> "idle", fn |-> "none", task |-> NoTask, returned |-> "none"]

NoDmCall ==
  [calls |-> 0, op |-> "none", task_id |-> NoTask, deps |-> <<>>,
   ready |-> {}, circular |-> FALSE]

IdleIndexer(j) ==
  [pc |-> "idle", j |-> j, word |-> Word(0), file_id |-> 0, position |-> 0, it |-> 0]

InitExt ==
  /\ reader = IdleReader
  /\ workers_ = Workers
  /\ enqueuer = [calls |-> 0, accepted |-> 0, last |-> "none"]
  /\ served = [w \in Workers |-> [executed |-> 0, thrown |-> 0, last |-> "none"]]
  /\ pool_shutdown = [pc |-> "idle", calls |-> 0]
  /\ queue_ = <<>>
  /\ closed_ = FALSE
  /\ producer = [p \in Producers |-> [pc |-> "push", j |-> 1]]
  /\ consumer = [c \in Consumers |-> [pc |-> "idle", val |-> NoItem, popped |-> "none", woken |-> "none"]]
  /\ closer = [pc |-> "idle", before |-> {}]
  /\ delivered = [x \in Items |-> 0]
  /\ index_ = [word \in {} |-> <<>>]
  /\ mutex_ = Free
  /\ indexer = [t \in Indexers |-> IdleIndexer(1)]
  /\ adds = [t \in Indexers |-> <<>>]
  /\ dm_call = NoDmCall
  /\ popper = [w \in Poppers |-> IdlePopper]
  /\ pusher = [pushes |-> 0, pending |-> 0]
  /\ taken = 0
  /\ task_queue_ids = <<>>
  /\ pool_calls = [calls |-> 0, accepted |-> <<>>, dequeued |-> <<>>]
  /\ in_hand = [w \in Workers |-> NoCallable]
  /\ ran = [f \in Callables |-> 0]

Init ==
  /\ next_task_id_ = 1
  /\ shutdown_requested_ = FALSE
  /\ all_tasks_ = {}
  /\ tasks_mutex_ = Free
  /\ state_ = [t \in TaskId |-> "NONE"]
  /\ priority_ = [t \in TaskId |-> NORMAL]
  /\ dependencies_ = [t \in TaskId |-> <<>>]
  /\ cancel_requested_ = [t \in TaskId |-> FALSE]
  /\ dependents_ = EmptyMap
  /\ dependency_count_ = EmptyMap
  /\ ready_queue_ = EmptyQueue
  /\ task_queue_ = 0
  /\ stop_ = FALSE
  /\ caller = [c \in Callers |-> IdleCaller]
  /\ worker = [w \in Workers |-> IdleWorker]
  /\ canceller = IdleCanceller
  /\ stopper = "idle"
  /\ waiter = IdleWaiter
  /\ popped = NoTask
  /\ requested = [t \in TaskId |-> <<>>]
  /\ accepted = {}
  /\ ready_transitions = [t \in TaskId |-> 0]
  /\ exec_count = [t \in TaskId |-> 0]
  /\ InitExt

\* ------------------------------------------------------- submit_task
\* submit_task testing the shutdown flag only after it has minted an id and
\* recorded the task
SubmitRejected_afterInsert(c) ==
  /\ caller[c].pc = "idle"
  /\ shutdown_requested_
  /\ next_task_id_ \in TaskId
  /\ tasks_mutex_ = Free
  /\ next_task_id_' = next_task_id_ + 1
  /\ all_tasks_' = all_tasks_ \cup {next_task_id_}
  /\ state_' = [state_ EXCEPT ![next_task_id_] = "PENDING"]
  /\ caller' = [caller EXCEPT ![c] = [IdleCaller EXCEPT !.last = "shutdown"]]
  /\ UNCHANGED <<auxVars, shutdown_requested_, tasks_mutex_, priority_,
                 dependencies_, cancel_requested_, dmVars, ready_queue_,
                 task_queue_, stop_, worker, canceller, stopper, histVars>>

\* lines 21-23: the scheduler is shutting down, submit_task throws
SubmitRejected(c) ==
  /\ caller[c].pc = "idle"
  /\ shutdown_requested_
  /\ caller' = [caller EXCEPT ![c] = [IdleCaller EXCEPT !.last = "shutdown"]]
  /\ UNCHANGED <<auxVars, next_task_id_, shutdown_requested_, all_tasks_, tasks_mutex_,
                 taskVars, dmVars, ready_queue_, task_queue_, stop_, worker,
                 canceller, stopper, histVars>>

\* submit_task with generate_task_id as a separate load and store: a call
\* that overlaps another call loads the counter value the other one loaded
SubmitBegin_lostUpdate(c, prio, deps) ==
  /\ caller[c].pc = "idle"
  /\ ~shutdown_requested_
  /\ next_task_id_ \in TaskId
  /\ LET busy == {d \in Callers : caller[d].pc # "idle"}
         id == IF busy = {} THEN next_task_id_
               ELSE caller[CHOOSE d \in busy : TRUE].id
     IN /\ next_task_id_' = id + 1
        /\ caller' = [caller EXCEPT ![c] =
             [pc |-> "check", id |-> id, prio |-> prio,
              deps |-> deps, i |-> 1, last |-> "none"]]
        /\ requested' = [requested EXCEPT ![id] = deps]
  /\ UNCHANGED <<auxVars, shutdown_requested_, all_tasks_, tasks_mutex_, taskVars,
                 dmVars, ready_queue_, task_queue_, stop_, worker, canceller,
                 stopper, accepted, ready_transitions, exec_count>>

\* lines 21-25: not shutting down; generate_task_id
SubmitBegin(c, prio, deps) ==
  /\ caller[c].pc = "idle"
  /\ ~shutdown_requested_
  /\ next_task_id_ \in TaskId
  /\ next_task_id_' = next_task_id_ + 1
  /\ caller' = [caller EXCEPT ![c] =
       [pc |-> "check", id |-> next_task_id_, prio |-> prio,
        deps |-> deps, i |-> 1, last |-> "none"]]
  /\ requested' = [requested EXCEPT ![next_task_id_] = deps]
  /\ UNCHANGED <<auxVars, shutdown_requested_, all_tasks_, tasks_mutex_, taskVars, dmVars,
                 ready_queue_, task_queue_, stop_, worker, canceller, stopper,
                 accepted, ready_transitions, exec_count>>

\* lines 28-32: cycle check under the DependencyManager's shared lock
SubmitCheckCycle(c) ==
  /\ caller[c].pc = "check"
  /\ caller' = [caller EXCEPT ![c] =
       IF caller[c].deps # <<>> /\
          has_circular_dependency(dependents_, caller[c].id, caller[c].deps)
         THEN [IdleCaller EXCEPT !.last = "cycle", !.id = caller[c].id]
         ELSE [caller[c] EXCEPT !.pc = "insert"]]
  /\ UNCHANGED <<auxVars, next_task_id_, shutdown_requested_, all_tasks_, tasks_mutex_,
                 taskVars, dmVars, ready_queue_, task_queue_, stop_, worker,
                 canceller, stopper, histVars>>

\* lines 35-40: create the Task (PENDING) and record it in all_tasks_
SubmitInsert(c) ==
  /\ caller[c].pc = "insert"
  /\ tasks_mutex_ = Free
  /\ all_tasks_' = all_tasks_ \cup {caller[c].id}
  /\ state_' = [state_ EXCEPT ![caller[c].id] = "PENDING"]
  /\ priority_' = [priority_ EXCEPT ![caller[c].id] = caller[c].prio]
  /\ caller' = [caller EXCEPT ![c].pc =
                  IF caller[c].deps = <<>> THEN "ready" ELSE "verify"]
  /\ UNCHANGED <<auxVars, next_task_id_, shutdown_requested_, tasks_mutex_, dependencies_,
                 cancel_requested_, dmVars, ready_queue_, task_queue_, stop_,
                 worker, canceller, stopper, histVars>>

\* lines 45-50: the dependency must be in the task table, else throw
SubmitVerifyDep(c) ==
  /\ caller[c].pc = "verify"
  /\ tasks_mutex_ = Free
  /\ caller' = [caller EXCEPT ![c] =
       IF caller[c].deps[caller[c].i] \notin all_tasks_
         THEN [IdleCaller EXCEPT !.last = "unknown", !.id = caller[c].id]
         ELSE [caller[c] EXCEPT !.pc = "add"]]
  /\ UNCHANGED <<auxVars, next_task_id_, shutdown_requested_, all_tasks_, tasks_mutex_,
                 taskVars, dmVars, ready_queue_, task_queue_, stop_, worker,
                 canceller, stopper, histVars>>

\* lines 52-53: task->add_dependency(dep); dependency_manager_.add_dependency
SubmitAddDep(c) ==
  /\ caller[c].pc = "add"
  /\ LET id == caller[c].id
         dep == caller[c].deps[caller[c].i]
     IN /\ dependencies_' = [dependencies_ EXCEPT ![id] = Append(@, dep)]
        /\ dependents_' = add_dependency_dependents(dependents_, id, dep)
        /\ dependency_count_' = add_dependency_count(dependency_count_, id)
  /\ caller' = [caller EXCEPT ![c].i = @ + 1,
                              ![c].pc = IF caller[c].i = Len(caller[c].deps)
                                          THEN "sched" ELSE "verify"]
  /\ UNCHANGED <<auxVars, next_task_id_, shutdown_requested_, all_tasks_, tasks_mutex_,
                 state_, priority_, cancel_requested_, ready_queue_, task_queue_,
                 stop_, worker, canceller, stopper, histVars>>

\* line 58: task->set_state(READY) for a task without dependencies
SubmitSetReady(c) ==
  /\ caller[c].pc = "ready"
  /\ state_' = [state_ EXCEPT ![caller[c].id] = "READY"]
  /\ ready_transitions' = [ready_transitions EXCEPT ![caller[c].id] = @ + 1]
  /\ caller' = [caller EXCEPT ![c].pc = "push"]
  /\ UNCHANGED <<auxVars, next_task_id_, shutdown_requested_, all_tasks_, tasks_mutex_,
                 priority_, dependencies_, cancel_requested_, dmVars, ready_queue_,
                 task_queue_, stop_, worker, canceller, stopper,
                 requested, accepted, exec_count>>

\* line 59: ready_queue_.push(task)
SubmitPush(c) ==
  /\ caller[c].pc = "push"
  /\ ready_queue_' = QueuePush(ready_queue_, caller[c].id)
  /\ caller' = [caller EXCEPT ![c].pc = "sched"]
  /\ UNCHANGED <<auxVars, next_task_id_, shutdown_requested_, all_tasks_, tasks_mutex_,
                 taskVars, dmVars, task_queue_, stop_, worker, canceller, stopper,
                 histVars>>

\* lines 63-65: schedule_ready_tasks() enqueues one probe; return task_id
SubmitSchedule(c) ==
  /\ caller[c].pc = "sched"
  /\ task_queue_' = enqueue(task_queue_, stop_)
  /\ accepted' = accepted \cup {caller[c].id}
  /\ caller' = [caller EXCEPT ![c] = [IdleCaller EXCEPT !.last = "ok", !.id = caller[c].id]]
  /\ UNCHANGED <<auxVars, next_task_id_, shutdown_requested_, all_tasks_, tasks_mutex_,
                 taskVars, dmVars, ready_queue_, stop_, worker, canceller, stopper,
                 requested, ready_transitions, exec_count>>

\* ------------------------------------------- ThreadPool::worker_loop
\* lines 67-85: wait for work-or-stop, then take the front probe or leave
WorkerDequeue(w) ==
  /\ worker[w].pc = "wait"
  /\ stop_ \/ task_queue_ > 0
  /\ IF task_queue_ = 0
       THEN /\ worker' = [worker EXCEPT ![w].pc = "exited"]
            /\ UNCHANGED task_queue_
       ELSE /\ worker' = [worker EXCEPT ![w].pc = "probe"]
            /\ task_queue_' = task_queue_ - 1
  /\ UNCHANGED <<auxVars, next_task_id_, shutdown_requested_, all_tasks_, tasks_mutex_,
                 taskVars, dmVars, ready_queue_, stop_, caller, canceller, stopper,
                 histVars>>

\* schedule_ready_tasks lambda, line 174: try_pop_for returns the top entry,
\* or nullptr when the queue stayed empty until the timeout
WorkerProbe(w) ==
  /\ worker[w].pc = "probe"
  /\ IF QueueIds(ready_queue_) # {}
       THEN /\ worker' = [worker EXCEPT ![w].pc = "exec",
                                        ![w].task = QueueTop(ready_queue_, priority_)]
            /\ ready_queue_' = QueuePop(ready_queue_, priority_)
       ELSE /\ worker' = [worker EXCEPT ![w] = IdleWorker]
            /\ UNCHANGED ready_queue_
  /\ UNCHANGED <<auxVars, next_task_id_, shutdown_requested_, all_tasks_, tasks_mutex_,
                 taskVars, dmVars, task_queue_, stop_, caller, canceller, stopper,
                 histVars>>

\* Task::execute, first half: a task whose cancel flag is set is not run;
\* otherwise the task becomes RUNNING and its callable starts
execute_start(st, cancelled, t) ==
  IF cancelled[t] THEN st ELSE [st EXCEPT ![t] = "RUNNING"]

\* Task::execute, second half: the callable returned normally
execute_finish(st, t) == [st EXCEPT ![t] = "COMPLETED"]

\* execute_task lines 181-188: shutdown check, then task->execute() starts
WorkerExecute(w) ==
  /\ worker[w].pc = "exec"
  /\ LET t == worker[w].task
     IN IF shutdown_requested_
          THEN /\ worker' = [worker EXCEPT ![w] = IdleWorker]
               /\ UNCHANGED <<state_, exec_count>>
          ELSE /\ state_' = execute_start(state_, cancel_requested_, t)
               /\ exec_count' = IF cancel_requested_[t] THEN exec_count
                                ELSE [exec_count EXCEPT ![t] = @ + 1]
               /\ worker' = [worker EXCEPT ![w].pc =
                               IF cancel_requested_[t] THEN "check" ELSE "running"]
  /\ UNCHANGED <<auxVars, next_task_id_, shutdown_requested_, all_tasks_, tasks_mutex_,
                 priority_, dependencies_, cancel_requested_, dmVars, ready_queue_,
                 task_queue_, stop_, caller, canceller, stopper,
                 requested, accepted, ready_transitions>>

\* the callable returns and Task::execute sets COMPLETED
WorkerFinish(w) ==
  /\ worker[w].pc = "running"
  /\ state_' = execute_finish(state_, worker[w].task)
  /\ worker' = [worker EXCEPT ![w].pc = "check"]
  /\ UNCHANGED <<auxVars, next_task_id_, shutdown_requested_, all_tasks_, tasks_mutex_,
                 priority_, dependencies_, cancel_requested_, dmVars, ready_queue_,
                 task_queue_, stop_, caller, canceller, stopper, histVars>>

\* execute_task lines 191-192: if COMPLETED, mark_completed(task_id)
WorkerMarkCompleted(w) ==
  /\ worker[w].pc = "check"
  /\ LET t == worker[w].task
     IN IF state_[t] = "COMPLETED"
          THEN /\ worker' = [worker EXCEPT ![w].pc = "lock", ![w].ready =
                               mark_completed_ready(dependents_, dependency_count_, t)]
               /\ dependency_count_' =
                    mark_completed_count(dependents_, dependency_count_, t)
               /\ dependents_' = mark_completed_dependents(dependents_, t)
          ELSE /\ worker' = [worker EXCEPT ![w] = IdleWorker]
               /\ UNCHANGED dmVars
  /\ UNCHANGED <<auxVars, next_task_id_, shutdown_requested_, all_tasks_, tasks_mutex_,
                 taskVars, ready_queue_, task_queue_, stop_, caller, canceller,
                 stopper, histVars>>

\* execute_task line 196: lock tasks_mutex_; with nothing newly ready the
\* loop body never runs, the lock is dropped and execute_task returns
WorkerLockTasks(w) ==
  /\ worker[w].pc = "lock"
  /\ tasks_mutex_ = Free
  /\ IF worker[w].ready = {}
       THEN /\ worker' = [worker EXCEPT ![w] = IdleWorker]
            /\ UNCHANGED tasks_mutex_
       ELSE /\ worker' = [worker EXCEPT ![w].pc = "publish"]
            /\ tasks_mutex_' = w
  /\ UNCHANGED <<auxVars, next_task_id_, shutdown_requested_, all_tasks_, taskVars, dmVars,
                 ready_queue_, task_queue_, stop_, caller, canceller, stopper,
                 histVars>>

\* execute_task publishing the ready tasks and returning with tasks_mutex_
\* still held
WorkerPublish_keepsLock(w) ==
  /\ worker[w].pc = "publish"
  /\ \E r \in worker[w].ready :
       /\ IF r \in all_tasks_
            THEN /\ state_' = [state_ EXCEPT ![r] = "READY"]
                 /\ ready_transitions' = [ready_transitions EXCEPT ![r] = @ + 1]
                 /\ ready_queue_' = QueuePush(ready_queue_, r)
            ELSE UNCHANGED <<state_, ready_transitions, ready_queue_>>
       /\ worker' = [worker EXCEPT ![w].ready = @ \ {r},
                                   ![w].pc = IF worker[w].ready = {r}
                                               THEN "resched" ELSE "publish"]
       /\ tasks_mutex_' = w
  /\ UNCHANGED <<auxVars, next_task_id_, shutdown_requested_, all_tasks_, priority_,
                 dependencies_, cancel_requested_, dmVars, task_queue_, stop_,
                 caller, canceller, stopper, requested, accepted, exec_count>>

\* execute_task lines 197-204: one iteration of the loop over ready_tasks
\* (a vector filled in unordered_set order); the lock is dropped after the last
WorkerPublish(w) ==
  /\ worker[w].pc = "publish"
  /\ \E r \in worker[w].ready :
       /\ IF r \in all_tasks_
            THEN /\ state_' = [state_ EXCEPT ![r] = "READY"]
                 /\ ready_transitions' = [ready_transitions EXCEPT ![r] = @ + 1]
                 /\ ready_queue_' = QueuePush(ready_queue_, r)
            ELSE UNCHANGED <<state_, ready_transitions, ready_queue_>>
       /\ worker' = [worker EXCEPT ![w].ready = @ \ {r},
                                   ![w].pc = IF worker[w].ready = {r}
                                               THEN "resched" ELSE "publish"]
       /\ tasks_mutex_' = IF worker[w].ready = {r} THEN Free ELSE w
  /\ UNCHANGED <<auxVars, next_task_id_, shutdown_requested_, all_tasks_, priority_,
                 dependencies_, cancel_requested_, dmVars, task_queue_, stop_,
                 caller, canceller, stopper, requested, accepted, exec_count>>

\* execute_task lines 208-210: one more probe when something became ready
WorkerReschedule(w) ==
  /\ worker[w].pc = "resched"
  /\ task_queue_' = enqueue(task_queue_, stop_)
  /\ worker' = [worker EXCEPT ![w] = IdleWorker]
  /\ UNCHANGED <<auxVars, next_task_id_, shutdown_requested_, all_tasks_, tasks_mutex_,
                 taskVars, dmVars, ready_queue_, stop_, caller, canceller, stopper,
                 histVars>>

\* ------------------------------------------------------- cancel_task
\* line 79: cancel_task(id) is entered; the call next waits for tasks_mutex_
CancelCall(id) ==
  /\ canceller.pc = "idle"
  /\ canceller.done < MaxCancels
  /\ canceller' = [canceller EXCEPT !.pc = "called", !.id = id, !.last = "none"]
  /\ UNCHANGED <<auxVars, next_task_id_, shutdown_requested_, all_tasks_, tasks_mutex_,
                 taskVars, dmVars, ready_queue_, task_queue_, stop_, caller, worker,
                 stopper, histVars>>

\* lines 80-88: lock, look the task up, read its state
CancelRead(id) ==
  /\ canceller.pc = "idle" \/ (canceller.pc = "called" /\ canceller.id = id)
  /\ canceller.done < MaxCancels
  /\ tasks_mutex_ = Free
  /\ IF id \notin all_tasks_
       THEN /\ canceller' = [IdleCanceller EXCEPT !.done = canceller.done + 1,
                                                  !.id = id, !.last = "false"]
            /\ UNCHANGED tasks_mutex_
       ELSE /\ canceller' = [canceller EXCEPT !.pc = "write", !.id = id,
                                              !.cur = state_[id], !.last = "none"]
            /\ tasks_mutex_' = Canceller
  /\ UNCHANGED <<auxVars, next_task_id_, shutdown_requested_, all_tasks_, taskVars, dmVars,
                 ready_queue_, task_queue_, stop_, caller, worker, stopper,
                 histVars>>

\* cancel_task without the test that leaves COMPLETED and CANCELLED tasks alone
CancelWrite_terminalToo ==
  /\ canceller.pc = "write"
  /\ LET id == canceller.id
         cur == canceller.cur
     IN /\ IF cur # "RUNNING"
             THEN /\ cancel_requested_' = [cancel_requested_ EXCEPT ![id] = TRUE]
                  /\ state_' = [state_ EXCEPT ![id] = "CANCELLED"]
                  /\ dependents_' = remove_task_dependents(dependents_, id)
                  /\ dependency_count_' = remove_task_count(dependency_count_, id)
             ELSE /\ cancel_requested_' = [cancel_requested_ EXCEPT ![id] = TRUE]
                  /\ UNCHANGED <<state_, dmVars>>
        /\ canceller' = [IdleCanceller EXCEPT
                           !.done = canceller.done + 1, !.id = id, !.cur = cur,
                           !.last = "true"]
  /\ tasks_mutex_' = Free
  /\ UNCHANGED <<auxVars, next_task_id_, shutdown_requested_, all_tasks_, priority_,
                 dependencies_, ready_queue_, task_queue_, stop_, caller, worker,
                 stopper, histVars>>

\* cancel_task treating a RUNNING task like a PENDING or READY one
CancelWrite_runningToo ==
  /\ canceller.pc = "write"
  /\ LET id == canceller.id
         cur == canceller.cur
     IN /\ IF cur \in {"PENDING", "READY", "RUNNING"}
             THEN /\ cancel_requested_' = [cancel_requested_ EXCEPT ![id] = TRUE]
                  /\ state_' = [state_ EXCEPT ![id] = "CANCELLED"]
                  /\ dependents_' = remove_task_dependents(dependents_, id)
                  /\ dependency_count_' = remove_task_count(dependency_count_, id)
             ELSE IF cur = "RUNNING"
             THEN /\ cancel_requested_' = [cancel_requested_ EXCEPT ![id] = TRUE]
                  /\ UNCHANGED <<state_, dmVars>>
             ELSE UNCHANGED <<cancel_requested_, state_, dmVars>>
        /\ canceller' = [IdleCanceller EXCEPT
                           !.done = canceller.done + 1, !.id = id, !.cur = cur,
                           !.last = IF cur \in {"PENDING", "READY", "RUNNING"}
                                      THEN "true" ELSE "false"]
  /\ tasks_mutex_' = Free
  /\ UNCHANGED <<auxVars, next_task_id_, shutdown_requested_, all_tasks_, priority_,
                 dependencies_, ready_queue_, task_queue_, stop_, caller, worker,
                 stopper, histVars>>

\* lines 91-107: act on the state that was read, unlock, return
CancelWrite ==
  /\ canceller.pc = "write"
  /\ LET id == canceller.id
         cur == canceller.cur
     IN /\ IF cur \in {"PENDING", "READY"}
             THEN /\ cancel_requested_' = [cancel_requested_ EXCEPT ![id] = TRUE]
                  /\ state_' = [state_ EXCEPT ![id] = "CANCELLED"]
                  /\ dependents_' = remove_task_dependents(dependents_, id)
                  /\ dependency_count_' = remove_task_count(dependency_count_, id)
             ELSE IF cur = "RUNNING"
             THEN /\ cancel_requested_' = [cancel_requested_ EXCEPT ![id] = TRUE]
                  /\ UNCHANGED <<state_, dmVars>>
             ELSE UNCHANGED <<cancel_requested_, state_, dmVars>>
        /\ canceller' = [IdleCanceller EXCEPT
                           !.done = canceller.done + 1, !.id = id, !.cur = cur,
                           !.last = IF cur \in {"PENDING", "READY", "RUNNING"}
                                      THEN "true" ELSE "false"]
  /\ tasks_mutex_' = Free
  /\ UNCHANGED <<auxVars, next_task_id_, shutdown_requested_, all_tasks_, priority_,
                 dependencies_, ready_queue_, task_queue_, stop_, caller, worker,
                 stopper, histVars>>

\* ---------------------------------------------------------- shutdown
\* line 130: shutdown_requested_.store(true)
ShutdownFlag ==
  /\ stopper = "idle"
  /\ shutdown_requested_' = TRUE
  /\ stopper' = "lock"
  /\ UNCHANGED <<auxVars, next_task_id_, all_tasks_, tasks_mutex_, taskVars, dmVars,
                 ready_queue_, task_queue_, stop_, caller, worker, canceller,
                 histVars>>

\* lines 133-140: under tasks_mutex_, cancel every PENDING or READY task
ShutdownCancelAll ==
  /\ stopper = "lock"
  /\ tasks_mutex_ = Free
  /\ tasks_mutex_' = Stopper
  /\ state_' = [t \in TaskId |->
                  IF t \in all_tasks_ /\ state_[t] \in {"PENDING", "READY"}
                    THEN "CANCELLED" ELSE state_[t]]
  /\ cancel_requested_' = [t \in TaskId |->
                  IF t \in all_tasks_ /\ state_[t] \in {"PENDING", "READY"}
                    THEN TRUE ELSE cancel_requested_[t]]
  /\ stopper' = "clear_queue"
  /\ UNCHANGED <<auxVars, next_task_id_, shutdown_requested_, all_tasks_, priority_,
                 dependencies_, dmVars, ready_queue_, task_queue_, stop_, caller,
                 worker, canceller, histVars>>

\* line 143: ready_queue_.clear()
ShutdownClearQueue ==
  /\ stopper = "clear_queue"
  /\ ready_queue_' = EmptyQueue
  /\ stopper' = "clear_dm"
  /\ UNCHANGED <<auxVars, next_task_id_, shutdown_requested_, all_tasks_, tasks_mutex_,
                 taskVars, dmVars, task_queue_, stop_, caller, worker, canceller,
                 histVars>>

\* line 144: dependency_manager_.clear()
ShutdownClearDeps ==
  /\ stopper = "clear_dm"
  /\ dependents_' = EmptyMap
  /\ dependency_count_' = EmptyMap
  /\ stopper' = "stop_pool"
  /\ UNCHANGED <<auxVars, next_task_id_, shutdown_requested_, all_tasks_, tasks_mutex_,
                 taskVars, ready_queue_, task_queue_, stop_, caller, worker,
                 canceller, histVars>>

\* ThreadPool::shutdown lines 36-42: stop_ = true, notify_all
ShutdownStopPool ==
  /\ stopper = "stop_pool"
  /\ stop_' = TRUE
  /\ stopper' = "join"
  /\ UNCHANGED <<auxVars, next_task_id_, shutdown_requested_, all_tasks_, tasks_mutex_,
                 taskVars, dmVars, ready_queue_, task_queue_, caller, worker,
                 canceller, histVars>>

\* ThreadPool::shutdown lines 45-51: join every worker; then
\* TaskScheduler::shutdown returns and its lock_guard releases tasks_mutex_
ShutdownJoin ==
  /\ stopper = "join"
  /\ \A w \in workers_ : worker[w].pc = "exited"
  /\ workers_' = {}
  /\ tasks_mutex_' = Free
  /\ stopper' = "done"
  /\ UNCHANGED <<waiter, popped, reader, enqueuer, served, pool_shutdown, cqVars, idxVars, directVars, next_task_id_, shutdown_requested_, all_tasks_, taskVars, dmVars,
                 ready_queue_, task_queue_, stop_, caller, worker, canceller,
                 histVars>>

\* ------------------------------------------ ThreadPool, called directly
schedulerVars == <<next_task_id_, shutdown_requested_, all_tasks_, tasks_mutex_,
                   taskVars, dmVars, ready_queue_, caller, canceller, stopper,
                   waiter, popped, reader, histVars>>

\* enqueue(task), lines 19-33, for any callable
PoolEnqueue ==
  /\ enqueuer.calls < MaxEnqueues
  /\ task_queue_' = enqueue(task_queue_, stop_)
  /\ enqueuer' = [calls |-> enqueuer.calls + 1,
                  accepted |-> enqueuer.accepted + (task_queue_' - task_queue_),
                  last |-> IF task_queue_' = task_queue_ THEN "dropped" ELSE "queued"]
  /\ UNCHANGED <<schedulerVars, cqVars, idxVars, directVars, stop_, worker, workers_, served, pool_shutdown>>

\* worker_loop line 90 for any callable: task() throws nothing and the loop
\* goes round
WorkerCallReturns(w) ==
  /\ worker[w].pc = "probe"
  /\ worker' = [worker EXCEPT ![w] = IdleWorker]
  /\ served' = [served EXCEPT ![w].executed = @ + 1, ![w].last = "returned"]
  /\ UNCHANGED <<schedulerVars, cqVars, idxVars, directVars, task_queue_, stop_, workers_, enqueuer, pool_shutdown>>

\* worker_loop without the try block: the exception leaves the thread function
WorkerCallThrows_uncaught(w) ==
  /\ worker[w].pc = "probe"
  /\ worker' = [worker EXCEPT ![w].pc = "exited"]
  /\ served' = [served EXCEPT ![w].executed = @ + 1, ![w].thrown = @ + 1,
                              ![w].last = "threw"]
  /\ UNCHANGED <<schedulerVars, cqVars, idxVars, directVars, task_queue_, stop_, workers_, enqueuer, pool_shutdown>>

\* worker_loop lines 89-95: task() throws, the handler logs and the loop goes
\* round
WorkerCallThrows(w) ==
  /\ worker[w].pc = "probe"
  /\ worker' = [worker EXCEPT ![w] = IdleWorker]
  /\ served' = [served EXCEPT ![w].executed = @ + 1, ![w].thrown = @ + 1,
                              ![w].last = "threw"]
  /\ UNCHANGED <<schedulerVars, cqVars, idxVars, directVars, task_queue_, stop_, workers_, enqueuer, pool_shutdown>>

\* ThreadPool::shutdown that leaves stop_ alone when it is entered again
PoolShutdownStop_once ==
  /\ pool_shutdown.pc = "idle"
  /\ pool_shutdown.calls < MaxShutdowns
  /\ stop_' = (pool_shutdown.calls = 0)
  /\ pool_shutdown' = [pool_shutdown EXCEPT !.pc = "join"]
  /\ UNCHANGED <<schedulerVars, cqVars, idxVars, directVars, task_queue_, worker, workers_, enqueuer, served>>

\* ThreadPool::shutdown lines 36-42: stop_ = true under queue_mutex_, notify_all
PoolShutdownStop ==
  /\ pool_shutdown.pc = "idle"
  /\ pool_shutdown.calls < MaxShutdowns
  /\ stop_' = TRUE
  /\ pool_shutdown' = [pool_shutdown EXCEPT !.pc = "join"]
  /\ UNCHANGED <<schedulerVars, cqVars, idxVars, directVars, task_queue_, worker, workers_, enqueuer, served>>

\* ThreadPool::shutdown lines 45-51: join every thread of workers_, clear it
PoolShutdownJoin ==
  /\ pool_shutdown.pc = "join"
  /\ \A w \in workers_ : worker[w].pc = "exited"
  /\ workers_' = {}
  /\ pool_shutdown' = [pc |-> "idle", calls |-> pool_shutdown.calls + 1]
  /\ UNCHANGED <<schedulerVars, cqVars, idxVars, directVars, task_queue_, stop_, worker, enqueuer, served>>

\* ------------------------- ThreadPool, with the callables told apart
\* task_queue_ids is task_queue_ with the identity of each queued callable;
\* task_queue_ stays its length.
besidePoolVars == <<schedulerVars, cqVars, idxVars, dm_call, queueClientVars,
                    enqueuer, served>>

\* std::queue::front taken from the wrong end
task_queue_front_back(q) == q[Len(q)]

\* std::queue::front
task_queue_front(q) == Head(q)

\* std::queue::pop
task_queue_pop(q) == Tail(q)

\* enqueue(task), lines 19-33, for the callable f
EnqueueCallable(f) ==
  /\ f = pool_calls.calls + 1
  /\ f \in Callables
  /\ task_queue_' = enqueue(task_queue_, stop_)
  /\ task_queue_ids' = IF stop_ THEN task_queue_ids ELSE Append(task_queue_ids, f)
  /\ pool_calls' = [pool_calls EXCEPT
       !.calls = f,
       !.accepted = IF stop_ THEN @ ELSE Append(@, f)]
  /\ UNCHANGED <<besidePoolVars, stop_, worker, workers_, pool_shutdown, in_hand, ran>>

\* worker_loop lines 67-85: wait for work-or-stop under queue_mutex_, then
\* leave the loop or move the front callable into the local "task"
WorkerTakeCallable(w) ==
  /\ worker[w].pc = "wait"
  /\ stop_ \/ task_queue_ids # <<>>
  /\ IF task_queue_ids = <<>>
       THEN /\ worker' = [worker EXCEPT ![w].pc = "exited"]
            /\ UNCHANGED <<task_queue_, task_queue_ids, in_hand, pool_calls>>
       ELSE /\ worker' = [worker EXCEPT ![w].pc = "probe"]
            /\ in_hand' = [in_hand EXCEPT ![w] = task_queue_front(task_queue_ids)]
            /\ pool_calls' = [pool_calls EXCEPT
                 !.dequeued = Append(@, task_queue_front(task_queue_ids))]
            /\ task_queue_ids' = task_queue_pop(task_queue_ids)
            /\ task_queue_' = task_queue_ - 1
  /\ UNCHANGED <<besidePoolVars, stop_, workers_, pool_shutdown, ran>>

\* worker_loop lines 88-96: task() runs outside the lock and ends, by
\* returning or by an exception the handler catches; the loop goes round
WorkerRunCallable(w) ==
  /\ worker[w].pc = "probe"
  /\ in_hand[w] # NoCallable
  /\ ran' = [ran EXCEPT ![in_hand[w]] = @ + 1]
  /\ in_hand' = [in_hand EXCEPT ![w] = NoCallable]
  /\ worker' = [worker EXCEPT ![w] = IdleWorker]
  /\ UNCHANGED <<besidePoolVars, task_queue_, task_queue_ids, stop_, workers_,
                 pool_shutdown, pool_calls>>

\* ---------------------------------------- Parallel-Index: ConcurrentQueue
\* Each step is one critical section of mutex_ or one notification.  A thread
\* inside cond_var_.wait is "blocked" until a notification (or a spurious
\* wake-up) sends it back to test the predicate under the mutex.
taskSchedulerVars == <<schedulerVars, task_queue_, stop_, worker, poolVars>>

AllProduced == \A p \in Producers : producer[p].pc = "done"

\* the values whose queue_.push has happened
Pushed ==
  {x \in Items : \/ x[2] < producer[x[1]].j
                 \/ x[2] = producer[x[1]].j /\ producer[x[1]].pc # "push"}

Blocked == {c \in Consumers : consumer[c].pc = "blocked"}

\* push, lines 30-33: queue_.push(value) under mutex_
ProducerPush(p) ==
  /\ producer[p].pc = "push"
  /\ queue_' = Append(queue_, <<p, producer[p].j>>)
  /\ producer' = [producer EXCEPT ![p].pc = "notify"]
  /\ UNCHANGED <<taskSchedulerVars, idxVars, directVars, closed_, consumer, closer, delivered>>

\* push, line 34: cond_var_.notify_one() wakes one blocked thread, if any;
\* the producer's loop then goes round or ends
ProducerNotify(p) ==
  /\ producer[p].pc = "notify"
  /\ \/ /\ Blocked = {}
        /\ UNCHANGED consumer
     \/ \E c \in Blocked : consumer' = [consumer EXCEPT ![c].pc = "check"]
  /\ producer' = [producer EXCEPT
       ![p] = IF producer[p].j = ItemsPerProducer
                THEN [pc |-> "done", j |-> producer[p].j]
                ELSE [pc |-> "push", j |-> producer[p].j + 1]]
  /\ UNCHANGED <<taskSchedulerVars, idxVars, directVars, queue_, closed_, closer, delivered>>

\* wait_and_pop, line 70: the consumer loop calls wait_and_pop
WaitAndPopCall(c) ==
  /\ consumer[c].pc = "idle"
  /\ consumer' = [consumer EXCEPT ![c].pc = "check", ![c].woken = "none"]
  /\ UNCHANGED <<taskSchedulerVars, idxVars, directVars, queue_, closed_, producer, closer, delivered>>

\* wait_and_pop that hands out the front element without removing it
WaitAndPopCheck_noPop(c) ==
  /\ consumer[c].pc = "check"
  /\ IF queue_ # <<>>
       THEN /\ consumer' = [consumer EXCEPT ![c].pc = "idle", ![c].popped = "true",
                                            ![c].val = Head(queue_)]
            /\ delivered' = [delivered EXCEPT ![Head(queue_)] = @ + 1]
            /\ UNCHANGED queue_
       ELSE IF closed_
         THEN /\ consumer' = [consumer EXCEPT ![c].pc = "done", ![c].popped = "false"]
              /\ UNCHANGED <<queue_, delivered>>
         ELSE /\ consumer' = [consumer EXCEPT ![c].pc = "blocked"]
              /\ UNCHANGED <<queue_, delivered>>
  /\ UNCHANGED <<taskSchedulerVars, idxVars, directVars, closed_, producer, closer>>

\* wait_and_pop, lines 71-83, under mutex_: the predicate of line 73 is
\* tested; when it is false the thread blocks in wait; otherwise the call
\* returns false (closed and empty) or moves the front element out and
\* returns true
WaitAndPopCheck(c) ==
  /\ consumer[c].pc = "check"
  /\ IF queue_ # <<>>
       THEN /\ consumer' = [consumer EXCEPT ![c].pc = "idle", ![c].popped = "true",
                                            ![c].val = Head(queue_)]
            /\ delivered' = [delivered EXCEPT ![Head(queue_)] = @ + 1]
            /\ queue_' = Tail(queue_)
       ELSE IF closed_
         THEN /\ consumer' = [consumer EXCEPT ![c].pc = "done", ![c].popped = "false"]
              /\ UNCHANGED <<queue_, delivered>>
         ELSE /\ consumer' = [consumer EXCEPT ![c].pc = "blocked"]
              /\ UNCHANGED <<queue_, delivered>>
  /\ UNCHANGED <<taskSchedulerVars, idxVars, directVars, closed_, producer, closer>>

\* std::condition_variable::wait may return without a notification
SpuriousWake(c) ==
  /\ consumer[c].pc = "blocked"
  /\ consumer' = [consumer EXCEPT ![c].pc = "check"]
  /\ UNCHANGED <<taskSchedulerVars, idxVars, directVars, queue_, closed_, producer, closer, delivered>>

\* close, lines 94-97: closed_ = true under mutex_
CloseSet ==
  /\ closer.pc = "idle"
  /\ closed_' = TRUE
  /\ closer' = [pc |-> "notify", before |-> Pushed]
  /\ UNCHANGED <<taskSchedulerVars, idxVars, directVars, queue_, producer, consumer, delivered>>

\* close with notify_one in the place of notify_all
CloseNotify_one ==
  /\ closer.pc = "notify"
  /\ \/ /\ Blocked = {}
        /\ UNCHANGED consumer
     \/ \E c \in Blocked :
          consumer' = [consumer EXCEPT ![c].pc = "check", ![c].woken = "close"]
  /\ closer' = [closer EXCEPT !.pc = "done"]
  /\ UNCHANGED <<taskSchedulerVars, idxVars, directVars, queue_, closed_, producer, delivered>>

\* close, line 98: cond_var_.notify_all() wakes every blocked thread
CloseNotify ==
  /\ closer.pc = "notify"
  /\ consumer' = [c \in Consumers |->
                    IF consumer[c].pc = "blocked"
                      THEN [consumer[c] EXCEPT !.pc = "check", !.woken = "close"]
                      ELSE consumer[c]]
  /\ closer' = [closer EXCEPT !.pc = "done"]
  /\ UNCHANGED <<taskSchedulerVars, idxVars, directVars, queue_, closed_, producer, delivered>>

\* ------------------------------------------ Parallel-Index: InvertedIndex
\* std::find_if over the occurrences of a word: the index of the first entry
\* of the file id, or 0 for end()
find_if(occurrences_for_word, file_id) ==
  LET hits == {k \in DOMAIN occurrences_for_word :
                 occurrences_for_word[k].file_id = file_id}
  IN  IF hits = {} THEN 0 ELSE CHOOSE k \in hits : \A h \in hits : k <= h

\* add_word_occurrence entered without taking mutex_
AddLock_unlocked(t, word, file_id) ==
  /\ indexer[t].pc = "idle"
  /\ mutex_' = t
  /\ index_' = IF word \in DOMAIN index_
                 THEN index_
                 ELSE [w \in DOMAIN index_ \cup {word} |->
                         IF w = word THEN <<>> ELSE index_[w]]
  /\ indexer' = [indexer EXCEPT
       ![t] = [pc |-> "locked", j |-> indexer[t].j, word |-> word,
               file_id |-> file_id, position |-> indexer[t].j,
               it |-> find_if(index_'[word], file_id)]]
  /\ adds' = [adds EXCEPT ![t] = Append(@, <<word, file_id, indexer[t].j>>)]
  /\ UNCHANGED <<taskSchedulerVars, cqVars, directVars>>

\* add_word_occurrence, lines 15-26: the unique_lock of line 17 is taken,
\* index_[word] inserts an empty vector when the word is new (line 20) and
\* find_if looks for the entry of the file id (lines 23-26)
AddLock(t, word, file_id) ==
  /\ indexer[t].pc = "idle"
  /\ mutex_ = Free
  /\ mutex_' = t
  /\ index_' = IF word \in DOMAIN index_
                 THEN index_
                 ELSE [w \in DOMAIN index_ \cup {word} |->
                         IF w = word THEN <<>> ELSE index_[w]]
  /\ indexer' = [indexer EXCEPT
       ![t] = [pc |-> "locked", j |-> indexer[t].j, word |-> word,
               file_id |-> file_id, position |-> indexer[t].j,
               it |-> find_if(index_'[word], file_id)]]
  /\ adds' = [adds EXCEPT ![t] = Append(@, <<word, file_id, indexer[t].j>>)]
  /\ UNCHANGED <<taskSchedulerVars, cqVars, directVars>>

\* add_word_occurrence, lines 28-35: the position is appended to the entry
\* found (line 30) or a new entry is appended (line 33); the lock is released
\* on return and the thread's loop goes round or ends
AddWrite(t) ==
  /\ indexer[t].pc = "locked"
  /\ index_' = IF indexer[t].it # 0
                 THEN [index_ EXCEPT ![indexer[t].word][indexer[t].it].positions =
                                        Append(@, indexer[t].position)]
                 ELSE [index_ EXCEPT ![indexer[t].word] =
                         Append(@, [file_id |-> indexer[t].file_id,
                                    positions |-> <<indexer[t].position>>])]
  /\ mutex_' = Free
  /\ indexer' = [indexer EXCEPT
       ![t] = IF indexer[t].j = AddsPerIndexer
                THEN [IdleIndexer(indexer[t].j) EXCEPT !.pc = "done"]
                ELSE IdleIndexer(indexer[t].j + 1)]
  /\ UNCHANGED <<taskSchedulerVars, cqVars, directVars, adds>>

\* InvertedIndex::size, lines 70-73
size == Cardinality(DOMAIN index_)

\* ----------------- ThreadSafePriorityQueue: waiting and notification
\* Threads call pop, try_pop_for and try_pop on the queue while others push.
\* Each step is one critical section of mutex_ or one notification; a thread
\* inside condition_.wait or wait_for is "blocked" until a notification, a
\* spurious wake-up or (wait_for) the timeout sends it back to the mutex.
\* notify_one and the parts of a wait happen in one total order, so that a
\* notification goes to a thread that is blocked at that moment, if any.
besideQueueVars == <<next_task_id_, shutdown_requested_, all_tasks_, tasks_mutex_,
                     taskVars, dmVars, task_queue_, stop_, caller, worker,
                     canceller, stopper, waiter, popped, reader, poolVars,
                     cqVars, idxVars, dm_call, callableVars, histVars>>

BlockedPoppers == {w \in Poppers : popper[w].pc = "blocked"}

\* push, lines 19-22: queue_.push under mutex_
PushInsert(t) ==
  /\ pusher.pushes < MaxPushes
  /\ ready_queue_' = QueuePush(ready_queue_, t)
  /\ pusher' = [pushes |-> pusher.pushes + 1, pending |-> pusher.pending + 1]
  /\ UNCHANGED <<besideQueueVars, popper, taken>>

\* push that wakes nobody
PushNotify_none ==
  /\ pusher.pending > 0
  /\ pusher' = [pusher EXCEPT !.pending = @ - 1]
  /\ UNCHANGED <<besideQueueVars, ready_queue_, popper, taken>>

\* push, line 23: condition_.notify_one() wakes one waiting thread, if any
PushNotify ==
  /\ pusher.pending > 0
  /\ pusher' = [pusher EXCEPT !.pending = @ - 1]
  /\ \/ /\ BlockedPoppers = {}
        /\ UNCHANGED popper
     \/ \E w \in BlockedPoppers : popper' = [popper EXCEPT ![w].pc = "check"]
  /\ UNCHANGED <<besideQueueVars, ready_queue_, taken>>

\* pop (line 26) or try_pop_for (line 51) is entered
WaitingPopCall(w, fn) ==
  /\ popper[w].pc = "idle"
  /\ popper' = [popper EXCEPT ![w] = [IdlePopper EXCEPT !.pc = "check", !.fn = fn]]
  /\ UNCHANGED <<besideQueueVars, ready_queue_, pusher, taken>>

\* pop lines 27-36, try_pop_for lines 54-59, under mutex_: the predicate
\* !queue_.empty() is tested; when it is false the thread blocks in the wait,
\* otherwise the call takes the top entry and returns it
WaitingPopCheck(w) ==
  /\ popper[w].pc = "check"
  /\ IF QueueIds(ready_queue_) = {}
       THEN /\ popper' = [popper EXCEPT ![w].pc = "blocked"]
            /\ UNCHANGED <<ready_queue_, taken>>
       ELSE /\ popper' = [popper EXCEPT ![w].pc = "idle", ![w].returned = "task",
                                        ![w].task = QueueTop(ready_queue_, priority_)]
            /\ ready_queue_' = QueuePop(ready_queue_, priority_)
            /\ taken' = taken + 1
  /\ UNCHANGED <<besideQueueVars, pusher>>

\* std::condition_variable::wait and wait_for may return without a notification
PopperSpuriousWake(w) ==
  /\ popper[w].pc = "blocked"
  /\ popper' = [popper EXCEPT ![w].pc = "check"]
  /\ UNCHANGED <<besideQueueVars, ready_queue_, pusher, taken>>

\* try_pop_for, line 56: the timeout of wait_for passes
WaitForTimeout(w) ==
  /\ popper[w].pc = "blocked"
  /\ popper[w].fn = "try_pop_for"
  /\ popper' = [popper EXCEPT ![w].pc = "timedout"]
  /\ UNCHANGED <<besideQueueVars, ready_queue_, pusher, taken>>

\* try_pop_for, lines 56-62: after the timeout wait_for returns the value of
\* the predicate, tested under mutex_: the top entry, or nullptr
TimedOutCheck(w) ==
  /\ popper[w].pc = "timedout"
  /\ IF QueueIds(ready_queue_) = {}
       THEN /\ popper' = [popper EXCEPT ![w].pc = "idle", ![w].returned = "nullptr"]
            /\ UNCHANGED <<ready_queue_, taken>>
       ELSE /\ popper' = [popper EXCEPT ![w].pc = "idle", ![w].returned = "task",
                                        ![w].task = QueueTop(ready_queue_, priority_)]
            /\ ready_queue_' = QueuePop(ready_queue_, priority_)
            /\ taken' = taken + 1
  /\ UNCHANGED <<besideQueueVars, pusher>>

\* try_pop (line 39) is entered
TryPopCall(w) ==
  /\ popper[w].pc = "idle"
  /\ popper' = [popper EXCEPT ![w] = [IdlePopper EXCEPT !.pc = "try", !.fn = "try_pop"]]
  /\ UNCHANGED <<besideQueueVars, ready_queue_, pusher, taken>>

\* try_pop, lines 40-48, under mutex_
TryPopBody(w) ==
  /\ popper[w].pc = "try"
  /\ IF QueueIds(ready_queue_) = {}
       THEN /\ popper' = [popper EXCEPT ![w].pc = "idle", ![w].returned = "false"]
            /\ UNCHANGED <<ready_queue_, taken>>
       ELSE /\ popper' = [popper EXCEPT ![w].pc = "idle", ![w].returned = "true",
                                        ![w].task = QueueTop(ready_queue_, priority_)]
            /\ ready_queue_' = QueuePop(ready_queue_, priority_)
            /\ taken' = taken + 1
  /\ UNCHANGED <<besideQueueVars, pusher>>

\* ------------------------------------- DependencyManager, called directly
\* A client calls the public functions of one DependencyManager, one call
\* after the other; every function holds mutex_ for its whole body.
besideDmVars == <<next_task_id_, shutdown_requested_, all_tasks_, tasks_mutex_,
                  taskVars, ready_queue_, task_queue_, stop_, caller, worker,
                  canceller, stopper, waiter, popped, reader, poolVars, cqVars,
                  idxVars, queueClientVars, callableVars, histVars>>

\* add_dependency(dependent, dependency), lines 4-12
DmAddDependency(dependent, dependency) ==
  /\ dm_call.calls < MaxDmCalls
  /\ dependents_' = add_dependency_dependents(dependents_, dependent, dependency)
  /\ dependency_count_' = add_dependency_count(dependency_count_, dependent)
  /\ dm_call' = [NoDmCall EXCEPT !.calls = dm_call.calls + 1, !.op = "add_dependency",
                                 !.task_id = dependent, !.deps = <<dependency>>]
  /\ UNCHANGED besideDmVars

\* mark_completed(task_id), lines 14-40
DmMarkCompleted(task_id) ==
  /\ dm_call.calls < MaxDmCalls
  /\ dependency_count_' = mark_completed_count(dependents_, dependency_count_, task_id)
  /\ dependents_' = mark_completed_dependents(dependents_, task_id)
  /\ dm_call' = [NoDmCall EXCEPT !.calls = dm_call.calls + 1, !.op = "mark_completed",
                                 !.task_id = task_id,
                                 !.ready = mark_completed_ready(dependents_,
                                             dependency_count_, task_id)]
  /\ UNCHANGED besideDmVars

\* remove_task(task_id), lines 83-96
DmRemoveTask(task_id) ==
  /\ dm_call.calls < MaxDmCalls
  /\ dependency_count_' = remove_task_count(dependency_count_, task_id)
  /\ dependents_' = remove_task_dependents(dependents_, task_id)
  /\ dm_call' = [NoDmCall EXCEPT !.calls = dm_call.calls + 1, !.op = "remove_task",
                                 !.task_id = task_id]
  /\ UNCHANGED besideDmVars

\* has_circular_dependency(task_id, new_dependencies), lines 67-81: a const
\* function that reads dependents_ with find
DmHasCircularDependency(task_id, new_dependencies) ==
  /\ dm_call.calls < MaxDmCalls
  /\ dm_call' = [NoDmCall EXCEPT !.calls = dm_call.calls + 1,
                                 !.op = "has_circular_dependency",
                                 !.task_id = task_id, !.deps = new_dependencies,
                                 !.circular = has_circular_dependency(dependents_,
                                                task_id, new_dependencies)]
  /\ UNCHANGED <<besideDmVars, dmVars>>

\* --------------------------------------------------- get_task_status
\* line 110: get_task_status(id) is entered; the call next waits for
\* tasks_mutex_
GetStatusCall(id) ==
  /\ reader.pc = "idle"
  /\ reader' = [pc |-> "lock", id |-> id, last |-> "none"]
  /\ UNCHANGED <<poolVars, cqVars, idxVars, directVars, waiter, popped, next_task_id_, shutdown_requested_,
                 all_tasks_, tasks_mutex_, taskVars, dmVars, ready_queue_,
                 task_queue_, stop_, caller, worker, canceller, stopper, histVars>>

\* lines 111-118: under tasks_mutex_, throw for an id that is not in the
\* task table, else return the task's state
GetStatusRead ==
  /\ reader.pc = "lock"
  /\ tasks_mutex_ = Free
  /\ reader' = [reader EXCEPT !.pc = "idle",
                              !.last = IF reader.id \in all_tasks_
                                         THEN state_[reader.id] ELSE "not_found"]
  /\ UNCHANGED <<poolVars, cqVars, idxVars, directVars, waiter, popped, next_task_id_, shutdown_requested_,
                 all_tasks_, tasks_mutex_, taskVars, dmVars, ready_queue_,
                 task_queue_, stop_, caller, worker, canceller, stopper, histVars>>

\* ------------------------------------------------------ wait_for_all
\* pending_tasks() is get_pending_task_count() + ready_queue_.size(): two
\* separately locked reads whose order the language leaves open.  waiter.seen
\* records the tasks that were accepted when the current poll began.
\* line 153 (121-123): the read of dependency_count_.size()
WaitReadCount ==
  /\ waiter.pc \in {"idle", "sleep", "have_size"}
  /\ LET n == get_pending_task_count(dependency_count_)
     IN waiter' = [waiter EXCEPT !.count = n,
                     !.seen = IF waiter.pc # "have_size" THEN accepted ELSE @,
                     !.pc = IF waiter.pc # "have_size" THEN "have_count"
                            ELSE IF n + waiter.size > 0 THEN "flag" ELSE "returned"]
  /\ UNCHANGED <<extVars, popped, next_task_id_, shutdown_requested_, all_tasks_,
                 tasks_mutex_, taskVars, dmVars, ready_queue_, task_queue_, stop_,
                 caller, worker, canceller, stopper, histVars>>

\* line 153 (121-123): the read of ready_queue_.size()
WaitReadSize ==
  /\ waiter.pc \in {"idle", "sleep", "have_count"}
  /\ LET n == QueueSize(ready_queue_)
     IN waiter' = [waiter EXCEPT !.size = n,
                     !.seen = IF waiter.pc # "have_count" THEN accepted ELSE @,
                     !.pc = IF waiter.pc # "have_count" THEN "have_size"
                            ELSE IF waiter.count + n > 0 THEN "flag" ELSE "returned"]
  /\ UNCHANGED <<extVars, popped, next_task_id_, shutdown_requested_, all_tasks_,
                 tasks_mutex_, taskVars, dmVars, ready_queue_, task_queue_, stop_,
                 caller, worker, canceller, stopper, histVars>>

\* lines 153-155: pending_tasks() > 0, so the shutdown flag decides between
\* returning and sleeping before the next poll
WaitCheckShutdown ==
  /\ waiter.pc = "flag"
  /\ waiter' = [waiter EXCEPT !.pc = IF shutdown_requested_ THEN "returned"
                                     ELSE "sleep"]
  /\ UNCHANGED <<extVars, popped, next_task_id_, shutdown_requested_, all_tasks_,
                 tasks_mutex_, taskVars, dmVars, ready_queue_, task_queue_, stop_,
                 caller, worker, canceller, stopper, histVars>>

wait_for_all ==
  \/ WaitReadCount
  \/ WaitReadSize
  \/ WaitCheckShutdown

\* ------------------------------- ThreadSafePriorityQueue, called directly
\* push(task), for any task; the model keeps at most MaxTasks entries
push(t) ==
  /\ QueueSize(ready_queue_) < MaxTasks
  /\ ready_queue_' = QueuePush(ready_queue_, t)
  /\ UNCHANGED <<extVars, popped, waiter, next_task_id_, shutdown_requested_, all_tasks_,
                 tasks_mutex_, taskVars, dmVars, task_queue_, stop_,
                 caller, worker, canceller, stopper, histVars>>

\* pop(): waits until the queue is not empty, then takes the top entry
pop ==
  /\ QueueIds(ready_queue_) # {}
  /\ popped' = QueueTop(ready_queue_, priority_)
  /\ ready_queue_' = QueuePop(ready_queue_, priority_)
  /\ UNCHANGED <<extVars, waiter, next_task_id_, shutdown_requested_, all_tasks_,
                 tasks_mutex_, taskVars, dmVars, task_queue_, stop_,
                 caller, worker, canceller, stopper, histVars>>

\* try_pop(task): false on an empty queue, else takes the top entry
try_pop ==
  /\ IF QueueIds(ready_queue_) = {}
       THEN /\ popped' = NoTask
            /\ UNCHANGED ready_queue_
       ELSE /\ popped' = QueueTop(ready_queue_, priority_)
            /\ ready_queue_' = QueuePop(ready_queue_, priority_)
  /\ UNCHANGED <<extVars, waiter, next_task_id_, shutdown_requested_, all_tasks_,
                 tasks_mutex_, taskVars, dmVars, task_queue_, stop_,
                 caller, worker, canceller, stopper, histVars>>

\* try_pop_for(timeout): nullptr when the queue stayed empty, else takes the
\* top entry
try_pop_for ==
  /\ IF QueueIds(ready_queue_) = {}
       THEN /\ popped' = NoTask
            /\ UNCHANGED ready_queue_
       ELSE /\ popped' = QueueTop(ready_queue_, priority_)
            /\ ready_queue_' = QueuePop(ready_queue_, priority_)
  /\ UNCHANGED <<extVars, waiter, next_task_id_, shutdown_requested_, all_tasks_,
                 tasks_mutex_, taskVars, dmVars, task_queue_, stop_,
                 caller, worker, canceller, stopper, histVars>>

\* ------------------------------------------------------ specifications
\* Where the submissions of a scenario come one after the other, one thread
\* (Submitter) makes them; the other caller threads stay idle.
\* dependency lists a caller can build from ids earlier calls returned
PriorDepLists == UNION {[1 .. n -> 1 .. (next_task_id_ - 1)] : n \in 0 .. MaxDeps}

SubmitContinue(c) ==
  \/ SubmitRejected(c)
  \/ SubmitCheckCycle(c)
  \/ SubmitInsert(c)
  \/ SubmitVerifyDep(c)
  \/ SubmitAddDep(c)
  \/ SubmitSetReady(c)
  \/ SubmitPush(c)
  \/ SubmitSchedule(c)

Work(w) ==
  \/ WorkerDequeue(w)
  \/ WorkerProbe(w)
  \/ WorkerExecute(w)
  \/ WorkerFinish(w)
  \/ WorkerMarkCompleted(w)
  \/ WorkerLockTasks(w)
  \/ WorkerPublish(w)
  \/ WorkerReschedule(w)

Shutdown ==
  \/ ShutdownFlag
  \/ ShutdownCancelAll
  \/ ShutdownClearQueue
  \/ ShutdownClearDeps
  \/ ShutdownStopPool
  \/ ShutdownJoin

\* Every thread kind.  Callers pass ids that earlier calls returned, with the
\* default priority; cancel_task is called with any id.
Next ==
  \/ \E c \in Submitter, deps \in PriorDepLists : SubmitBegin(c, NORMAL, deps)
  \/ \E c \in Submitter : SubmitContinue(c)
  \/ \E w \in Workers : Work(w)
  \/ \E id \in ArgIds : CancelRead(id)
  \/ CancelWrite
  \/ Shutdown

Spec == Init /\ [][Next]_vars

\* Submission and execution only; callers pass arbitrary id lists (unknown
\* ids, the id being minted, repeated ids).
NextSubmit ==
  \/ \E c \in Submitter, deps \in DepLists : SubmitBegin(c, NORMAL, deps)
  \/ \E c \in Submitter : SubmitCheckCycle(c)
  \/ \E c \in Submitter : SubmitInsert(c)
  \/ \E c \in Submitter : SubmitVerifyDep(c)
  \/ \E c \in Submitter : SubmitAddDep(c)
  \/ \E c \in Submitter : SubmitSetReady(c)
  \/ \E c \in Submitter : SubmitPush(c)
  \/ \E c \in Submitter : SubmitSchedule(c)
  \/ \E w \in Workers : Work(w)

SpecSubmit == Init /\ [][NextSubmit]_vars

\* Submission and execution only; callers pass ids that earlier calls
\* returned.
NextRun ==
  \/ \E c \in Submitter, deps \in PriorDepLists : SubmitBegin(c, NORMAL, deps)
  \/ \E c \in Submitter : SubmitCheckCycle(c)
  \/ \E c \in Submitter : SubmitInsert(c)
  \/ \E c \in Submitter : SubmitVerifyDep(c)
  \/ \E c \in Submitter : SubmitAddDep(c)
  \/ \E c \in Submitter : SubmitSetReady(c)
  \/ \E c \in Submitter : SubmitPush(c)
  \/ \E c \in Submitter : SubmitSchedule(c)
  \/ \E w \in Workers : Work(w)

SpecRun == Init /\ [][NextRun]_vars

\* The same with fair scheduling: a call of submit_task or a worker that can
\* take its next step eventually takes it, and callables return.
RunSubmit(c) ==
  \/ SubmitCheckCycle(c)
  \/ SubmitInsert(c)
  \/ SubmitVerifyDep(c)
  \/ SubmitAddDep(c)
  \/ SubmitSetReady(c)
  \/ SubmitPush(c)
  \/ SubmitSchedule(c)

SpecRunFair ==
  /\ SpecRun
  /\ \A c \in Submitter : WF_vars(RunSubmit(c))
  /\ \A w \in Workers : WF_vars(Work(w))

\* Submission, execution and cancel_task of ids that submit_task returned.
NextCancel ==
  \/ \E c \in Submitter, deps \in PriorDepLists : SubmitBegin(c, NORMAL, deps)
  \/ \E c \in Submitter : SubmitCheckCycle(c)
  \/ \E c \in Submitter : SubmitInsert(c)
  \/ \E c \in Submitter : SubmitVerifyDep(c)
  \/ \E c \in Submitter : SubmitAddDep(c)
  \/ \E c \in Submitter : SubmitSetReady(c)
  \/ \E c \in Submitter : SubmitPush(c)
  \/ \E c \in Submitter : SubmitSchedule(c)
  \/ \E w \in Workers : Work(w)
  \/ \E id \in accepted : CancelRead(id)
  \/ CancelWrite

SpecCancel == Init /\ [][NextCancel]_vars

\* Tasks without dependencies, any priority, no cancel and no shutdown.
\* Threads are scheduled fairly and callables return: a call or a worker
\* that can take its next step eventually takes it.
SubmitIndependent(c) ==
  \/ SubmitCheckCycle(c)
  \/ SubmitInsert(c)
  \/ SubmitSetReady(c)
  \/ SubmitPush(c)
  \/ SubmitSchedule(c)

NextIndependent ==
  \/ \E c \in Submitter, prio \in Priority : SubmitBegin(c, prio, <<>>)
  \/ \E c \in Submitter : SubmitIndependent(c)
  \/ \E w \in Workers : WorkerDequeue(w)
  \/ \E w \in Workers : WorkerProbe(w)
  \/ \E w \in Workers : WorkerExecute(w)
  \/ \E w \in Workers : WorkerFinish(w)
  \/ \E w \in Workers : WorkerMarkCompleted(w)
  \/ \E w \in Workers : WorkerLockTasks(w)

IndependentWork(w) ==
  \/ WorkerDequeue(w)
  \/ WorkerProbe(w)
  \/ WorkerExecute(w)
  \/ WorkerFinish(w)
  \/ WorkerMarkCompleted(w)
  \/ WorkerLockTasks(w)

SpecIndependent ==
  /\ Init
  /\ [][NextIndependent]_vars
  /\ \A c \in Submitter : WF_vars(SubmitIndependent(c))
  /\ \A w \in Workers : WF_vars(IndependentWork(w))

\* The scenario A (NORMAL, no dependencies), B (HIGH, depends on A),
\* C (LOW, no dependencies), submitted in this order to a one-worker pool.
ScenarioABC ==
  <<[prio |-> NORMAL, deps |-> <<>>],
    [prio |-> HIGH, deps |-> <<1>>],
    [prio |-> LOW, deps |-> <<>>]>>

FirstWorker == NumCallers + 1

NextABC ==
  \/ \E c \in Submitter :
       /\ next_task_id_ \in DOMAIN ScenarioABC
       /\ SubmitBegin(c, ScenarioABC[next_task_id_].prio, ScenarioABC[next_task_id_].deps)
  \/ \E c \in Submitter : SubmitCheckCycle(c)
  \/ \E c \in Submitter : SubmitInsert(c)
  \/ \E c \in Submitter : SubmitVerifyDep(c)
  \/ \E c \in Submitter : SubmitAddDep(c)
  \/ \E c \in Submitter : SubmitSetReady(c)
  \/ \E c \in Submitter : SubmitPush(c)
  \/ \E c \in Submitter : SubmitSchedule(c)
  \/ Work(FirstWorker)

SpecABC == Init /\ [][NextABC]_vars

\* Submission and execution, with one thread in wait_for_all.
NextWait ==
  \/ \E c \in Submitter, deps \in PriorDepLists : SubmitBegin(c, NORMAL, deps)
  \/ \E c \in Submitter : SubmitCheckCycle(c)
  \/ \E c \in Submitter : SubmitInsert(c)
  \/ \E c \in Submitter : SubmitVerifyDep(c)
  \/ \E c \in Submitter : SubmitAddDep(c)
  \/ \E c \in Submitter : SubmitSetReady(c)
  \/ \E c \in Submitter : SubmitPush(c)
  \/ \E c \in Submitter : SubmitSchedule(c)
  \/ \E w \in Workers : Work(w)
  \/ WaitReadCount
  \/ WaitReadSize
  \/ WaitCheckShutdown

SpecWait == Init /\ [][NextWait]_vars

\* Tasks without dependencies and of any priority, submitted one after the
\* other to a pool with one worker.
NextPriority ==
  \/ \E c \in Submitter, prio \in Priority : SubmitBegin(c, prio, <<>>)
  \/ \E c \in Submitter : SubmitIndependent(c)
  \/ IndependentWork(FirstWorker)

SpecPriority == Init /\ [][NextPriority]_vars

\* The ready queue on its own: tasks of any priority are pushed and popped
\* through the queue's interface.
InitQueue ==
  /\ next_task_id_ = 1
  /\ shutdown_requested_ = FALSE
  /\ all_tasks_ = {}
  /\ tasks_mutex_ = Free
  /\ state_ = [t \in TaskId |-> "NONE"]
  /\ priority_ \in [TaskId -> Priority]
  /\ dependencies_ = [t \in TaskId |-> <<>>]
  /\ cancel_requested_ = [t \in TaskId |-> FALSE]
  /\ dependents_ = EmptyMap
  /\ dependency_count_ = EmptyMap
  /\ ready_queue_ = EmptyQueue
  /\ task_queue_ = 0
  /\ stop_ = FALSE
  /\ caller = [c \in Callers |-> IdleCaller]
  /\ worker = [w \in Workers |-> IdleWorker]
  /\ canceller = IdleCanceller
  /\ stopper = "idle"
  /\ waiter = IdleWaiter
  /\ popped = NoTask
  /\ requested = [t \in TaskId |-> <<>>]
  /\ accepted = {}
  /\ ready_transitions = [t \in TaskId |-> 0]
  /\ exec_count = [t \in TaskId |-> 0]
  /\ InitExt

NextQueue ==
  \/ \E t \in TaskId : push(t)
  \/ pop
  \/ try_pop
  \/ try_pop_for

SpecQueue == InitQueue /\ [][NextQueue]_vars

\* Submission and execution with one thread calling shutdown().
NextShutdown ==
  \/ \E c \in Submitter, deps \in PriorDepLists : SubmitBegin(c, NORMAL, deps)
  \/ \E c \in Submitter : SubmitContinue(c)
  \/ \E w \in Workers : Work(w)
  \/ Shutdown

SpecShutdown == Init /\ [][NextShutdown]_vars

\* The same where every callable returns and no thread is starved: a call or
\* a worker that can take a step again and again eventually takes it.
SpecShutdownFair ==
  /\ SpecShutdown
  /\ \A c \in Submitter : SF_vars(SubmitContinue(c))
  /\ \A w \in Workers : SF_vars(Work(w))
  /\ WF_vars(Shutdown)

\* dependency lists of at most one id: an id some call was given, the id the
\* next call will be given, or an id no task ever has
OneDepLists ==
  UNION {[1 .. n -> ((1 .. next_task_id_) \cap TaskId) \cup {UnknownId}] : n \in 0 .. 1}

\* Several threads in submit_task at the same time (some submissions fail
\* after their id was minted); no worker runs.
NextIds ==
  \/ \E c \in Callers, deps \in OneDepLists : SubmitBegin(c, NORMAL, deps)
  \/ \E c \in Callers : SubmitCheckCycle(c)
  \/ \E c \in Callers : SubmitInsert(c)
  \/ \E c \in Callers : SubmitVerifyDep(c)
  \/ \E c \in Callers : SubmitAddDep(c)
  \/ \E c \in Callers : SubmitSetReady(c)
  \/ \E c \in Callers : SubmitPush(c)
  \/ \E c \in Callers : SubmitSchedule(c)

SpecIds == Init /\ [][NextIds]_vars

\* The pool on its own: callables of any kind are enqueued, the workers run
\* them, and shutdown is called up to MaxShutdowns times, one call after the
\* other.
NextPool ==
  \/ PoolEnqueue
  \/ \E w \in Workers : WorkerDequeue(w)
  \/ \E w \in Workers : WorkerCallReturns(w)
  \/ \E w \in Workers : WorkerCallThrows(w)
  \/ PoolShutdownStop
  \/ PoolShutdownJoin

SpecPool == Init /\ [][NextPool]_vars

\* The pool with the callables told apart: MaxEnqueues calls of enqueue, the
\* workers, and shutdown called up to MaxShutdowns times.  Workers are
\* scheduled fairly and callables end.
PoolWork(w) == WorkerTakeCallable(w) \/ WorkerRunCallable(w)

NextCallables ==
  \/ \E f \in Callables : EnqueueCallable(f)
  \/ \E w \in Workers : PoolWork(w)
  \/ PoolShutdownStop
  \/ PoolShutdownJoin

SpecCallables ==
  /\ Init /\ [][NextCallables]_vars
  /\ \A w \in Workers : WF_vars(PoolWork(w))

\* The producer/consumer test: NumProducers threads push ItemsPerProducer
\* values each, NumConsumers threads loop on wait_and_pop, and one thread calls
\* close() at some time.  Every thread is scheduled fairly; a wake-up without
\* a notification may or may not happen, and close() need not be called.
ProducerStep(p) == ProducerPush(p) \/ ProducerNotify(p)

ConsumerStep(c) == WaitAndPopCall(c) \/ WaitAndPopCheck(c)

NextConcurrentQueue ==
  \/ \E p \in Producers : ProducerStep(p)
  \/ \E c \in Consumers : ConsumerStep(c)
  \/ \E c \in Consumers : SpuriousWake(c)
  \/ CloseSet
  \/ CloseNotify

SpecConcurrentQueue ==
  /\ Init
  /\ [][NextConcurrentQueue]_vars
  /\ \A p \in Producers : WF_vars(ProducerStep(p))
  /\ \A c \in Consumers : WF_vars(ConsumerStep(c))
  /\ WF_vars(CloseNotify)

\* Up to MaxClientTasks tasks without dependencies, with cancel_task,
\* get_task_status and shutdown() called from threads of their own.  Every thread is scheduled
\* fairly and a thread that waits for a mutex gets it when the mutex is
\* released again and again; only a task's callable need not return.
CancelLocked == canceller.pc = "called" /\ CancelRead(canceller.id)

WorkButCallable(w) ==
  \/ WorkerDequeue(w)
  \/ WorkerProbe(w)
  \/ WorkerExecute(w)
  \/ WorkerMarkCompleted(w)
  \/ WorkerLockTasks(w)

\* Threads adding word occurrences to one InvertedIndex (the test
\* ConcurrentAdditions, with a file id that threads may share)
NextIndex ==
  \/ \E t \in Indexers :
       \E file_id \in {t, SharedFile} : AddLock(t, Word(indexer[t].j), file_id)
  \/ \E t \in Indexers : AddWrite(t)

SpecIndex == Init /\ [][NextIndex]_vars

\* The DependencyManager on its own: a client calls its functions with any
\* ids, up to MaxDmCalls times.
TaskDepLists == UNION {[1 .. n -> TaskId] : n \in 0 .. MaxDeps}

NextDm ==
  \/ \E dependent \in TaskId, dependency \in TaskId :
       DmAddDependency(dependent, dependency)
  \/ \E task_id \in TaskId : DmMarkCompleted(task_id)
  \/ \E task_id \in TaskId : DmRemoveTask(task_id)
  \/ \E task_id \in TaskId, new_dependencies \in TaskDepLists :
       DmHasCircularDependency(task_id, new_dependencies)

SpecDm == Init /\ [][NextDm]_vars

\* The ready queue with waiting threads: any thread may start any of the
\* three pop functions and any number of threads push; notifications, the
\* timeouts of wait_for and the calls in progress are scheduled fairly.
PopperStep(w) == WaitingPopCheck(w) \/ TimedOutCheck(w) \/ TryPopBody(w)

NextWaiters ==
  \/ \E t \in TaskId : PushInsert(t)
  \/ PushNotify
  \/ \E w \in Poppers, fn \in {"pop", "try_pop_for"} : WaitingPopCall(w, fn)
  \/ \E w \in Poppers : TryPopCall(w)
  \/ \E w \in Poppers : PopperStep(w)
  \/ \E w \in Poppers : PopperSpuriousWake(w)
  \/ \E w \in Poppers : WaitForTimeout(w)

SpecWaiters ==
  /\ Init /\ [][NextWaiters]_vars
  /\ WF_vars(PushNotify)
  /\ \A w \in Poppers : WF_vars(PopperStep(w)) /\ WF_vars(WaitForTimeout(w))

NextCalls ==
  \/ \E c \in Submitter : next_task_id_ <= MaxClientTasks /\ SubmitBegin(c, NORMAL, <<>>)
  \/ \E c \in Submitter : SubmitRejected(c)
  \/ \E c \in Submitter : SubmitIndependent(c)
  \/ \E w \in Workers : WorkButCallable(w)
  \/ \E w \in Workers : WorkerFinish(w)
  \/ \E id \in accepted : CancelCall(id)
  \/ CancelLocked
  \/ CancelWrite
  \/ \E id \in accepted : GetStatusCall(id)
  \/ GetStatusRead
  \/ Shutdown

SpecCalls ==
  /\ Init
  /\ [][NextCalls]_vars
  /\ \A c \in Submitter : SF_vars(SubmitRejected(c) \/ SubmitIndependent(c))
  /\ SF_vars(CancelLocked \/ CancelWrite)
  /\ SF_vars(GetStatusRead)
  /\ \A w \in Workers : SF_vars(WorkButCallable(w))
  /\ WF_vars(Shutdown)

TypeOK ==
  /\ next_task_id_ \in 1 .. MaxTasks + 1
  /\ all_tasks_ \subseteq TaskId
  /\ tasks_mutex_ \in {Free, Canceller, Stopper} \cup Workers
  /\ \A t \in TaskId : state_[t] \in TaskState \cup {"NONE"}
  /\ DOMAIN dependents_ \subseteq TaskId
  /\ DOMAIN dependency_count_ \subseteq TaskId
  /\ task_queue_ \in Nat

\* ---------------------------------------------------- claim vocabulary
\* no submit_task call in progress, no probe queued, every worker idle
Quiescent ==
  /\ \A c \in Callers : caller[c].pc = "idle"
  /\ task_queue_ = 0
  /\ \A w \in Workers : worker[w].pc = "wait"

\* the dependency list handed to submit_task names ids returned earlier
PriorIdsOnly(t) == \A i \in DOMAIN requested[t] : requested[t][i] < t

\* dependency_count_[t], taken as 0 when t has no entry
RemainingCount(t) == IF t \in DOMAIN dependency_count_ THEN dependency_count_[t] ELSE 0

\* the tasks that (transitively) depend on t according to dependents_
DependentsOf(S) == UNION {dependents_[k] : k \in S \cap DOMAIN dependents_}

TransitiveDependents(t) ==
  LET RECURSIVE Grow(_)
      Grow(S) == IF DependentsOf(S) \subseteq S THEN S ELSE Grow(S \cup DependentsOf(S))
  IN Grow(DependentsOf({t}))

\* the state machine PENDING -> READY -> RUNNING -> {COMPLETED | CANCELLED},
\* with cancellation also entered from PENDING and READY
AllowedTransitions ==
  {<<"NONE", "PENDING">>, <<"PENDING", "READY">>, <<"READY", "RUNNING">>,
   <<"RUNNING", "COMPLETED">>, <<"RUNNING", "CANCELLED">>,
   <<"PENDING", "CANCELLED">>, <<"READY", "CANCELLED">>}

\* the number of callables the workers have run to their end
PoolExecuted ==
  LET RECURSIVE Sum(_)
      Sum(S) == IF S = {} THEN 0
                ELSE LET w == CHOOSE x \in S : TRUE
                     IN served[w].executed + Sum(S \ {w})
  IN Sum(Workers)

\* the callables a worker has dequeued and not yet run to their end
PoolInHand == Cardinality({w \in Workers : worker[w].pc = "probe"})

\* how often x is in queue_
InQueue(x) == Cardinality({i \in DOMAIN queue_ : queue_[i] = x})

AllConsumersDone == \A c \in Consumers : consumer[c].pc = "done"

\* ---------------------------------------------------------------- claims
\* C1: a task submitted with dependency list D is never READY or RUNNING
\* while some d in D has not reached COMPLETED (D names earlier ids).
C1_ReadyOnlyAfterDependencies ==
  \A t \in all_tasks_ :
    (PriorIdsOnly(t) /\ state_[t] \in {"READY", "RUNNING"})
      => \A d \in Range(requested[t]) : state_[d] = "COMPLETED"

\* C2: whenever no completion is still on its way to mark_completed, the
\* remaining-dependency counter of every task equals the number of entries
\* of its dependency list whose task is not COMPLETED.
C2_CounterMatchesOutstanding ==
  (\A w \in Workers : worker[w].pc # "check")
    => \A t \in all_tasks_ :
         RemainingCount(t) =
           Cardinality({i \in DOMAIN dependencies_[t] :
                          state_[dependencies_[t][i]] # "COMPLETED"})

\* C3: the committed "depends on" relation is acyclic, self-loops included.
C3_GraphAcyclic == \A t \in TaskId : t \notin TransitiveDependents(t)

\* C4: after submit_task threw for an unknown dependency id, the rejected
\* task is not in the task table.
C4_RejectedTaskNotRegistered ==
  \A c \in Callers :
    (caller[c].pc = "idle" /\ caller[c].last = "unknown")
      => caller[c].id \notin all_tasks_

\* C5: after submit_task threw (a cycle, or an unknown id, also after ids
\* of accepted tasks in the same list), no edge of the rejected task is in
\* dependents_ and it has no dependency_count_ entry, so pending_tasks()
\* does not count it.
C5_RejectedTaskLeavesNoEdge ==
  \A c \in Callers :
    (/\ caller[c].pc = "idle"
     /\ caller[c].last \in {"unknown", "cycle"}
     /\ \A i \in DOMAIN requested[caller[c].id] :
          requested[caller[c].id][i] \in accepted \/
          requested[caller[c].id][i] = UnknownId)
      => /\ caller[c].id \notin DOMAIN dependency_count_
         /\ \A k \in DOMAIN dependents_ : caller[c].id \notin dependents_[k]

\* C6: a task submitted with a non-empty dependency list (of earlier ids)
\* is set to READY at most once.
C6_ReadyAtMostOnce ==
  \A t \in TaskId :
    (requested[t] # <<>> /\ PriorIdsOnly(t)) => ready_transitions[t] <= 1

\* C7: every state change of every task is a step of PENDING -> READY ->
\* RUNNING -> {COMPLETED | CANCELLED} (or a cancellation from PENDING or
\* READY); COMPLETED and CANCELLED are never left.
C7_TransitionsMonotonic ==
  [][\A t \in TaskId :
       state_'[t] = state_[t] \/ <<state_[t], state_'[t]>> \in AllowedTransitions]_vars

\* C8: without cancel and shutdown, once the scheduler has come to rest
\* (no call in progress, no probe queued, all workers idle) no ready work
\* is left in the ready queue.
C8_NoStrandedReadyWork ==
  Quiescent => QueueSize(ready_queue_) = 0

\* C9: tasks without dependencies: every accepted task eventually is
\* COMPLETED, and once all tasks are, pending_tasks() is 0 from then on.
C9_IndependentTasksComplete ==
  /\ \A t \in TaskId : (t \in accepted) ~> (state_[t] = "COMPLETED")
  /\ (accepted = TaskId) ~> [](/\ \A t \in TaskId : state_[t] = "COMPLETED"
                               /\ pending_tasks = 0)

C9_Witness ==
  /\ accepted = TaskId
  /\ \A t \in TaskId : state_[t] = "COMPLETED" /\ exec_count[t] = 1
  /\ pending_tasks = 0
  /\ Quiescent

\* C10: scenario A, B (depends on A), C: B starts only after A, C only
\* after B, and once the scheduler has come to rest after the three
\* submissions all three tasks are COMPLETED.
C10_OrderABC ==
  /\ exec_count[2] > 0 => exec_count[1] > 0
  /\ exec_count[3] > 0 => exec_count[2] > 0
  /\ (Quiescent /\ accepted = {1, 2, 3})
       => \A t \in {1, 2, 3} : state_[t] = "COMPLETED"

\* C11: when wait_for_all returns and shutdown has not been requested, every
\* task accepted so far (here: accepted before the returning poll began) is
\* COMPLETED or CANCELLED.
C11_WaitForAllMeansDone ==
  [][(waiter.pc # "returned" /\ waiter'.pc = "returned" /\ ~shutdown_requested_')
       => \A t \in waiter'.seen : state_'[t] \in {"COMPLETED", "CANCELLED"}]_vars

\* the priorities of the scenario [LOW, HIGH, NORMAL, HIGH], by task id
ScenarioPriority == <<LOW, HIGH, NORMAL, HIGH>>

ScenarioTasks == TaskId \cap DOMAIN ScenarioPriority

\* a is served before b: higher priority, or the same priority and smaller id
ServedBefore(prio, a, b) ==
  prio[a] > prio[b] \/ (prio[a] = prio[b] /\ a < b)

CancelledEarly(t) ==
  /\ canceller.pc = "idle" /\ canceller.id = t /\ canceller.last = "true"
  /\ canceller.cur \in {"PENDING", "READY"}

\* some worker has popped t from the ready queue and still holds it
HeldByWorker(t) == \E w \in Workers : worker[w].task = t

\* C14: once cancel_task returned true for a PENDING or READY task that no
\* worker had popped, the task's callable is never started and the task's
\* state is CANCELLED from then on.
C14_CancelledNeverRuns ==
  [][\A t \in TaskId :
       (CancelledEarly(t) /\ ~HeldByWorker(t) /\ state_[t] = "CANCELLED")
         => (state_'[t] = "CANCELLED" /\ exec_count'[t] = exec_count[t])]_vars

\* C15: after cancel_task(A) returned true for a PENDING or READY task A, A
\* is in neither DependencyManager map, and no task that lists A as a
\* dependency is set READY or started.
C15_CancelledBlocksDependents ==
  [][\A a \in TaskId :
       CancelledEarly(a)
         => /\ a \notin DOMAIN dependents_'
            /\ a \notin DOMAIN dependency_count_'
            /\ \A b \in TaskId :
                 a \in Range(requested[b])
                   => /\ ready_transitions'[b] = ready_transitions[b]
                      /\ exec_count'[b] = exec_count[b]]_vars

\* C19: cancel_task on a task it finds COMPLETED or CANCELLED returns false
\* and changes nothing: not the task, not the dependency graph, not the
\* ready queue.
C19_CancelTerminalIsNoOp ==
  [][(canceller.pc = "write" /\ canceller'.pc = "idle"
      /\ canceller.cur \in {"COMPLETED", "CANCELLED"})
       => /\ canceller'.last = "false"
          /\ state_' = state_
          /\ cancel_requested_' = cancel_requested_
          /\ dependents_' = dependents_
          /\ dependency_count_' = dependency_count_
          /\ ready_queue_' = ready_queue_]_vars

C19_Witness ==
  /\ canceller.pc = "idle" /\ canceller.last = "false" /\ canceller.done = 2
  /\ canceller.cur = "CANCELLED"
  /\ state_[canceller.id] = "CANCELLED"

\* C20: cancel_task on a task it finds RUNNING returns true and only sets
\* the cancel flag; when the callable of a task whose flag is set returns,
\* the task becomes COMPLETED, and the worker then calls mark_completed,
\* which hands back every dependent whose counter reaches zero.
C20_CancelRunningOnlySetsFlag ==
  [][/\ (canceller.pc = "write" /\ canceller'.pc = "idle"
         /\ canceller.cur = "RUNNING")
          => /\ canceller'.last = "true"
             /\ cancel_requested_'[canceller.id]
             /\ state_' = state_
             /\ dependents_' = dependents_
             /\ dependency_count_' = dependency_count_
             /\ ready_queue_' = ready_queue_
     /\ \A w \in Workers :
          LET t == worker[w].task
          IN /\ (worker[w].pc = "running" /\ worker'[w].pc # "running"
                 /\ cancel_requested_[t])
                  => state_'[t] = "COMPLETED"
             /\ (worker[w].pc = "check" /\ worker'[w].pc # "check"
                 /\ cancel_requested_[t] /\ state_[t] = "COMPLETED")
                  => /\ worker'[w].pc = "lock"
                     /\ t \notin DOMAIN dependents_'
                     /\ \A d \in DOMAIN dependency_count_ :
                          (t \in DOMAIN dependents_ /\ d \in dependents_[t]
                           /\ dependency_count_[d] = 1)
                            => d \in worker'[w].ready]_vars

C20_Witness ==
  /\ canceller.pc = "idle" /\ canceller.last = "true"
  /\ canceller.cur = "RUNNING"
  /\ state_[canceller.id] = "COMPLETED"
  /\ cancel_requested_[canceller.id]
  /\ \E b \in TaskId :
       /\ canceller.id \in Range(dependencies_[b])
       /\ ready_transitions[b] = 1

\* C16: once shutdown() has returned, pending_tasks() is 0 and the ready
\* queue is empty, and no submit_task call succeeds any more.
C16_ShutdownDrains ==
  [][stopper' = "done"
       => /\ pending_tasks' = 0
          /\ QueueSize(ready_queue_') = 0
          /\ stopper = "done" => accepted' = accepted]_vars

\* C17: a submit_task call that starts when the shutdown flag is set fails
\* at once and leaves the task table, the tasks, the dependency graph, the
\* ready queue and the pool's work queue as they were.
C17_SubmitAfterShutdownRejected ==
  [][\A c \in Callers :
       (caller[c].pc = "idle" /\ shutdown_requested_ /\ caller'[c] # caller[c])
         => /\ caller'[c].pc = "idle" /\ caller'[c].last = "shutdown"
            /\ all_tasks_' = all_tasks_
            /\ state_' = state_
            /\ dependents_' = dependents_
            /\ dependency_count_' = dependency_count_
            /\ ready_queue_' = ready_queue_
            /\ task_queue_' = task_queue_
            /\ accepted' = accepted]_vars

C17_Witness ==
  /\ \E c \in Callers : caller[c].pc = "idle" /\ caller[c].last = "shutdown"
  /\ shutdown_requested_
  /\ all_tasks_ # {} /\ all_tasks_ # TaskId

\* C18: every step that mints an id takes the counter's value, which is
\* larger than every id held by any call (in progress, failed or returned)
\* and than every returned id, and moves the counter up by one; the counter
\* never goes down; a call returns the id minted for it, and no id is
\* returned twice.
C18_IdsUniqueIncreasing ==
  [][/\ next_task_id_' >= next_task_id_
     /\ \A c \in Callers :
          /\ (caller[c].pc = "idle" /\ caller'[c].pc # "idle")
               => /\ caller'[c].id = next_task_id_
                  /\ next_task_id_' = next_task_id_ + 1
                  /\ \A d \in Callers : caller[d].id < caller'[c].id
                  /\ \A a \in accepted : a < caller'[c].id
          /\ (caller[c].pc # "idle" /\ caller'[c].pc = "idle")
               => /\ caller'[c].id = caller[c].id
                  /\ accepted' # accepted
                       => (caller[c].id \notin accepted
                           /\ accepted' = accepted \cup {caller[c].id})]_vars

C18_Witness ==
  /\ caller[1].pc = "idle" /\ caller[1].last = "unknown" /\ caller[1].id = 2
  /\ caller[2].pc = "idle" /\ caller[2].last = "ok" /\ caller[2].id = 3
  /\ accepted = {1, 3}

\* C21: a submit_task, cancel_task or get_task_status call that has begun
\* returns (or throws), whatever the callables of the tasks do and also while
\* shutdown() is in progress.
C21_CallsNeverWaitForCallable ==
  /\ \A c \in Submitter : (caller[c].pc # "idle") ~> (caller[c].pc = "idle")
  /\ (canceller.pc # "idle") ~> (canceller.pc = "idle")
  /\ (reader.pc # "idle") ~> (reader.pc = "idle")

\* C22: an enqueue call made when the stop flag is set returns without
\* adding to the work queue and without touching the workers; nothing is ever
\* added while the flag is set, and what the workers run, hold or find queued
\* is exactly what enqueue accepted, so a dropped callable is never executed.
C22_EnqueueAfterStopIsNoOp ==
  [][/\ stop_ => task_queue_' <= task_queue_
     /\ (stop_ /\ enqueuer'.calls # enqueuer.calls)
          => /\ enqueuer'.last = "dropped"
             /\ enqueuer'.accepted = enqueuer.accepted
             /\ task_queue_' = task_queue_
             /\ worker' = worker /\ served' = served
     /\ PoolExecuted' + PoolInHand' + task_queue_' = enqueuer'.accepted]_vars

C22_Witness ==
  /\ stop_ /\ pool_shutdown.calls >= 1
  /\ enqueuer.last = "dropped"
  /\ enqueuer.accepted >= 1 /\ PoolExecuted = enqueuer.accepted
  /\ task_queue_ = 0

\* C23: a worker whose callable throws is back at the head of its loop,
\* waiting, after the exception; no worker thread ends before the stop flag
\* is set.
C23_ThrowKeepsWorkerAlive ==
  [][/\ \A w \in Workers :
          served'[w].thrown > served[w].thrown => worker'[w].pc = "wait"
     /\ ~stop_' => \A w \in Workers : worker'[w].pc # "exited"]_vars

C23_Witness ==
  /\ ~stop_
  /\ \E w \in Workers :
       /\ served[w].thrown >= 1 /\ served[w].last = "returned"
       /\ worker[w].pc = "wait"
  /\ \A w \in Workers : worker[w].pc # "exited"

\* C24: the first ThreadPool::shutdown call returns with the stop flag set,
\* every worker ended and workers_ empty; every step of a call that begins
\* after the first one returned leaves the flag, the work queue, the workers
\* and workers_ as they were.
C24_ShutdownIdempotent ==
  [][/\ (pool_shutdown.calls = 0 /\ pool_shutdown'.calls = 1)
          => /\ stop_'
             /\ \A w \in Workers : worker'[w].pc = "exited"
             /\ workers_' = {}
     /\ (pool_shutdown.calls >= 1 /\ pool_shutdown' # pool_shutdown)
          => /\ stop_' = stop_
             /\ task_queue_' = task_queue_
             /\ worker' = worker
             /\ workers_' = workers_
             /\ served' = served]_vars

C24_Witness ==
  /\ pool_shutdown = [pc |-> "idle", calls |-> 2]
  /\ stop_ /\ workers_ = {}
  /\ \A w \in Workers : worker[w].pc = "exited"

\* C25: with several producers and consumers, every pushed value is either
\* still in the queue, once, or was returned by exactly one successful
\* wait_and_pop, and nothing else is; wait_and_pop returns false only when the
\* queue is closed and empty; every value pushed before close() is eventually
\* returned; and when close() is called after the producers are done, every
\* consumer loop ends, with the queue empty and closed from then on.
C25_ProducersConsumers ==
  /\ [](\A x \in Items :
          InQueue(x) + delivered[x] = (IF x \in Pushed THEN 1 ELSE 0))
  /\ [][\A c \in Consumers :
          (consumer[c].pc # "done" /\ consumer'[c].pc = "done")
            => (closed_ /\ queue_ = <<>> /\ consumer'[c].popped = "false")]_vars
  /\ closed_ ~> (\A x \in closer.before : delivered[x] = 1)
  /\ (closed_ /\ closer.before = Items)
       ~> [](AllConsumersDone /\ queue_ = <<>> /\ closed_)

C25_Witness ==
  /\ closer.pc = "done" /\ closer.before = Items
  /\ AllConsumersDone /\ queue_ = <<>> /\ closed_
  /\ \A x \in Items : delivered[x] = 1
  /\ \A c \in Consumers : consumer[c].val # NoItem

\* C26: once close() has notified, no consumer is blocked in wait_and_pop any
\* more; a consumer that is waiting when the queue is closed leaves the wait,
\* and every consumer loop ends; the call that ends it returns false on an
\* empty queue and hands out no value.
C26_CloseWakesWaiters ==
  /\ [](closer.pc = "done" => Blocked = {})
  /\ [][\A c \in Consumers :
          (consumer[c].pc # "done" /\ consumer'[c].pc = "done")
            => /\ queue_ = <<>> /\ queue_' = <<>>
               /\ consumer'[c].val = consumer[c].val
               /\ delivered' = delivered]_vars
  /\ \A c \in Consumers :
       (closed_ /\ consumer[c].pc = "blocked") ~> (consumer[c].pc = "done")

C26_Witness ==
  /\ closer.pc = "done"
  /\ \E c, d \in Consumers :
       /\ consumer[c] = [pc |-> "done", val |-> NoItem, popped |-> "false",
                          woken |-> "close"]
       /\ consumer[d].pc = "done" /\ consumer[d].woken = "none"

\* calls add_word_occurrence(word, file_id, _) made so far, as <<thread, index>>
Added(word, file_id) ==
  {c \in Indexers \X (1 .. AddsPerIndexer) :
     /\ c[2] <= Len(adds[c[1]])
     /\ adds[c[1]][c[2]][1] = word
     /\ adds[c[1]][c[2]][2] = file_id}

\* the entries of a file id in the occurrence vector of a word
Entries(word, file_id) ==
  IF word \in DOMAIN index_
    THEN {k \in DOMAIN index_[word] : index_[word][k].file_id = file_id}
    ELSE {}

AllIndexed == \A t \in Indexers : indexer[t].pc = "done"

\* C27: after all threads adding to the InvertedIndex have finished, every
\* word holds exactly one WordOccurrence entry per file id that added it and
\* none for the others, the positions of the entry are exactly the positions
\* added for that word and file id (each as often as it was added), and
\* size() is the number of distinct words added.
C27_NoLostUpdate ==
  AllIndexed =>
    /\ \A word \in Words, file_id \in FileIds :
         /\ Cardinality(Entries(word, file_id)) =
              (IF Added(word, file_id) # {} THEN 1 ELSE 0)
         /\ \A k \in Entries(word, file_id) :
              /\ Len(index_[word][k].positions) = Cardinality(Added(word, file_id))
              /\ \A position \in 1 .. AddsPerIndexer :
                   Cardinality({i \in DOMAIN index_[word][k].positions :
                                  index_[word][k].positions[i] = position})
                     = Cardinality({c \in Added(word, file_id) :
                                      adds[c[1]][c[2]][3] = position})
    /\ size = Cardinality({word \in Words :
                             \E file_id \in FileIds : Added(word, file_id) # {}})

\* all threads are done; two threads added one word under the shared file id
\* and another word each under its own id, and every word is in the index
C27_Witness ==
  /\ AllIndexed
  /\ size = AddsPerIndexer
  /\ \E word \in Words :
       /\ \E c, d \in Added(word, SharedFile) : c[1] # d[1]
       /\ \E k \in Entries(word, SharedFile) : Len(index_[word][k].positions) >= 2
  /\ \E word \in Words :
       \E t, u \in Indexers :
         t # u /\ Entries(word, t) # {} /\ Entries(word, u) # {}

\* C28: a task never has two entries in the ready queue at the same time;
\* a push adds one entry, for a task that has been set READY once more than
\* it was set READY when it was pushed before (here: a task whose entries so
\* far are fewer than its READY transitions); and a probe that obtains a task
\* takes one entry of it out of the queue in the same step, so that no other
\* probe obtains that entry.
C28_OneEntryOneProbe ==
  /\ [](\A t \in TaskId : ready_queue_[t] <= 1)
  /\ [][\A t \in TaskId :
          ready_queue_'[t] > ready_queue_[t] =>
            /\ ready_queue_'[t] = ready_queue_[t] + 1
            /\ ready_queue_[t] < ready_transitions'[t]]_vars
  /\ [][\A w \in Workers :
          (worker[w].pc = "probe" /\ worker'[w].pc = "exec") =>
            /\ ready_queue_[worker'[w].task] >= 1
            /\ ready_queue_' = [ready_queue_ EXCEPT ![worker'[w].task] = @ - 1]
            /\ \A v \in Workers \ {w} : worker'[v] = worker[v]]_vars

\* C29: whenever a task's callable is executing, its worker thread holds no
\* scheduler lock.  The DependencyManager lock, the ready-queue mutex and the
\* pool's queue mutex are taken and released inside one step (mark_completed,
\* try_pop_for, the dequeue of worker_loop), so a thread holds them in no
\* state; tasks_mutex_ is the lock a thread can hold from one step to the next.
C29_CallableRunsUnlocked ==
  \A w \in Workers : worker[w].pc = "running" => tasks_mutex_ # w

\* a worker runs the callable of a task with dependencies (one that was
\* published under tasks_mutex_) while another worker holds tasks_mutex_
C29_Witness ==
  \E w \in Workers :
    /\ worker[w].pc = "running"
    /\ tasks_mutex_ \in Workers \ {w}
    /\ ready_transitions[worker[w].task] >= 1
    /\ requested[worker[w].task] # <<>>

\* C30: no thread holds tasks_mutex_ when it calls into another component:
\* shutdown() does not hold it when it is about to call ready_queue_.clear(),
\* dependency_manager_.clear() or ThreadPool::shutdown (nor inside the join of
\* the latter), execute_task does not hold it when it is about to push a task
\* onto the ready queue, and cancel_task does not hold it when it is about to
\* call dependency_manager_.remove_task.
C30_NoLockAcrossComponents ==
  /\ stopper \in {"clear_queue", "clear_dm", "stop_pool", "join"}
       => tasks_mutex_ # Stopper
  /\ \A w \in Workers : worker[w].pc = "publish" => tasks_mutex_ # w
  /\ (canceller.pc = "write" /\ canceller.cur \in {"PENDING", "READY"})
       => tasks_mutex_ # Canceller

\* a step that is the call op of the DependencyManager's client
DmCallOf(op) == dm_call'.calls # dm_call.calls /\ dm_call'.op = op

C32_RemoveTaskFrame ==
  [][DmCallOf("remove_task") =>
       LET t == dm_call'.task_id
       IN /\ t \notin DOMAIN dependency_count_'
          /\ t \notin DOMAIN dependents_'
          /\ \A k \in DOMAIN dependents_' : t \notin dependents_'[k]
          /\ DOMAIN dependency_count_' = (DOMAIN dependency_count_) \ {t}
          /\ \A d \in DOMAIN dependency_count_' :
               dependency_count_'[d] = dependency_count_[d]
          /\ DOMAIN dependents_' = (DOMAIN dependents_) \ {t}
          /\ \A k \in DOMAIN dependents_' : dependents_'[k] = dependents_[k] \ {t}]_vars

\* remove_task has just removed a task that had a dependency and a
\* dependent: the dependency's set is now empty, and the dependent keeps its
\* counter although it is in no dependent set any more
C32_Witness ==
  /\ dm_call.op = "remove_task"
  /\ dm_call.task_id \notin DOMAIN dependency_count_
  /\ dm_call.task_id \notin DOMAIN dependents_
  /\ \E k \in DOMAIN dependents_ : dependents_[k] = {}
  /\ \E d \in DOMAIN dependency_count_ :
       \A k \in DOMAIN dependents_ : d \notin dependents_[k]

\* the tasks that can be reached from the tasks of S along dependency ->
\* dependent edges (the tasks of S included)
RECURSIVE ReachableFrom(_, _)
ReachableFrom(dm, S) ==
  LET N == S \cup UNION {get_dependents(dm, k) : k \in S}
  IN  IF N = S THEN S ELSE ReachableFrom(dm, N)

\* C33: has_circular_dependency(t, deps) returns true if and only if from
\* some d in deps there is a path along the dependency -> dependent edges
\* back to t in the graph of the moment of the call; it returns false for an
\* empty list; and it changes neither dependents_ nor dependency_count_.
C33_CycleCheckIffPath ==
  [][DmCallOf("has_circular_dependency") =>
       LET t == dm_call'.task_id
           deps == dm_call'.deps
       IN /\ dm_call'.circular <=>
               \E i \in DOMAIN deps : t \in ReachableFrom(dependents_, {deps[i]})
          /\ deps = <<>> => ~dm_call'.circular
          /\ dependents_' = dependents_
          /\ dependency_count_' = dependency_count_]_vars

\* C34: from the cycle check of a submission to its last add_dependency no
\* other thread's write to the DependencyManager takes effect: while a
\* submit_task call with dependencies has passed its check and has not yet
\* registered its last edge, every step of another thread leaves dependents_
\* and dependency_count_ as they are.
C34_CheckThenCommitAtomic ==
  [][\A c \in Callers :
       (/\ caller[c].pc \in {"insert", "verify", "add"}
        /\ caller[c].deps # <<>>
        /\ caller'[c] = caller[c])
         => /\ dependents_' = dependents_
            /\ dependency_count_' = dependency_count_]_vars

\* C35: the ready queue has no lost wake-up. While a thread is blocked in
\* pop (or in try_pop_for before its timeout) and the queue holds an entry,
\* some thread obtains an entry (a pushed entry is handed out, to a waiting
\* thread unless a thread that was not waiting took it first), and a thread
\* never stays blocked beside a non-empty queue. pop returns only with an
\* entry; try_pop returns false exactly when the queue is empty; try_pop_for
\* returns nullptr only when the queue is empty at the end of its wait.
PopperReturns(w) == popper[w].pc # "idle" /\ popper'[w].pc = "idle"

C35_ReturnValues ==
  \A w \in Poppers :
    PopperReturns(w) =>
      /\ popper[w].fn = "pop" =>
           /\ popper'[w].returned = "task"
           /\ popper'[w].task = QueueTop(ready_queue_, priority_)
           /\ QueueIds(ready_queue_) # {}
      /\ popper[w].fn = "try_pop" =>
           (popper'[w].returned = "false" <=> QueueIds(ready_queue_) = {})
      /\ popper[w].fn = "try_pop_for" =>
           (popper'[w].returned = "nullptr" => QueueIds(ready_queue_) = {})
      /\ popper'[w].returned \in {"task", "true"} => taken' = taken + 1

CalledWithCompletedDeps(c, t) ==
  /\ caller[c].pc = "check"
  /\ caller[c].id = t
  /\ caller[c].deps # <<>>
  /\ \A i \in DOMAIN caller[c].deps : state_[caller[c].deps[i]] = "COMPLETED"

C36_BecomesReady ==
  \A c \in Submitter, t \in TaskId :
    CalledWithCompletedDeps(c, t) ~> (ready_transitions[t] > 0)

C36_CompletedDepsNotBlocked ==
  /\ C36_BecomesReady
  /\ \A c \in Submitter, t \in TaskId :
       CalledWithCompletedDeps(c, t) ~> (exec_count[t] > 0)

\* C37: the callable of every task is invoked at most once over the whole
\* run, and a task that has started or finished running is never made READY
\* and queued again.
C37_CallableAtMostOnce ==
  /\ [](\A t \in TaskId : exec_count[t] <= 1)
  /\ [][\A t \in TaskId :
          (ready_transitions'[t] > ready_transitions[t] \/ ready_queue_'[t] > ready_queue_[t])
            => exec_count[t] = 0]_vars

\* C38: TaskScheduler::shutdown always terminates when every callable
\* terminates, in particular when it is called while tasks are RUNNING on
\* worker threads.
C38_ShutdownTerminates ==
  /\ (stopper # "idle") ~> (stopper = "done")
  /\ (stopper = "lock" /\ \E t \in TaskId : state_[t] = "RUNNING") ~> (stopper = "done")

\* C39: a task submitted with a dependency list that names the same id more
\* than once behaves as if the id were listed once: once submit_task has
\* returned and no completion is on its way through execute_task, its
\* remaining count equals the number of distinct uncompleted dependencies,
\* and it is no longer PENDING when all of them are COMPLETED.
HasRepeatedDependency(t) == Cardinality(Range(requested[t])) < Len(requested[t])

NoCompletionUnderWay == \A w \in Workers : worker[w].pc \notin {"check", "lock", "publish"}

C39_RepeatedDependencyAsOnce ==
  \A t \in accepted :
    (HasRepeatedDependency(t) /\ PriorIdsOnly(t) /\ NoCompletionUnderWay)
      => /\ RemainingCount(t) =
              Cardinality({d \in Range(requested[t]) : state_[d] # "COMPLETED"})
         /\ (\A d \in Range(requested[t]) : state_[d] = "COMPLETED")
              => state_[t] # "PENDING"

\* C40: every callable accepted by enqueue is executed exactly once, by one
\* worker; callables are dequeued in the order in which enqueue accepted
\* them; and ThreadPool::shutdown returns only when the work queue is empty
\* and every accepted callable has finished.
InSeq(q, f) == Cardinality({i \in DOMAIN q : q[i] = f})

Holders(f) == {w \in Workers : in_hand[w] = f}

IsPrefix(p, q) == Len(p) <= Len(q) /\ \A i \in DOMAIN p : p[i] = q[i]

C40_AcceptedRunOnceInOrder ==
  /\ [](\A f \in Callables :
          InSeq(task_queue_ids, f) + Cardinality(Holders(f)) + ran[f]
            = InSeq(pool_calls.accepted, f))
  /\ [](\A f \in Callables : InSeq(pool_calls.accepted, f) <= 1)
  /\ [](IsPrefix(pool_calls.dequeued, pool_calls.accepted))
  /\ \A f \in Callables : (InSeq(pool_calls.accepted, f) = 1) ~> [](ran[f] = 1)
  /\ [][pool_shutdown'.calls > pool_shutdown.calls
          => /\ task_queue_ids' = <<>>
             /\ \A f \in Callables : ran'[f] = InSeq(pool_calls'.accepted, f)]_vars

\* every enqueue was accepted, every callable was dequeued in that order and
\* executed once, and a call of shutdown has returned
C40_Witness ==
  /\ pool_calls.accepted = [f \in Callables |-> f]
  /\ pool_calls.dequeued = pool_calls.accepted
  /\ \A f \in Callables : ran[f] = 1
  /\ pool_shutdown.calls >= 1
  /\ pool_shutdown.pc = "idle"

====
